---- MODULE Spec2Model ----
(***************************************************************************)
(* CaloriSense backend: the persistence coordinator of DatabaseHandler     *)
(* (save / _delayed_save / init), the working set shared between           *)
(* DatabaseHandler, UserDataCache and the websocket connections, the      *)
(* per-message dispatch of websocket_endpoint, the retry loop and the      *)
(* cache of DeepseekAPI, and IntentPredictor.predict.                      *)
(*                                                                         *)
(* Python objects are modelled by identity: a record is a heap cell named  *)
(* by (email, generation), an intake by (email, generation, date), the     *)
(* generation being the number of the DatabaseHandler.init() call that     *)
(* built it.  Threads are the asyncio event loop ("loop"), a second caller *)
(* of save() ("worker") and the threading.Timer threads armed by save().   *)
(***************************************************************************)
EXTENDS Naturals, Integers, Sequences, FiniteSets, TLC

\* --------------------------------------------------------------------------
\* Program constants and bounds
\* --------------------------------------------------------------------------
\* DatabaseHandler._save_interval
save_interval == 10

\* the clock advances in steps of half an interval
TickStep == save_interval \div 2

\* time.time() at process start is far beyond _last_saved = 0 + interval
StartTime == save_interval

\* last clock value explored
MaxTime == 25

\* number of save() calls explored
MaxCalls == 4

\* number of threading.Timer objects explored
MaxTimers == 2

\* field values written by handlers
MaxVal == 1

\* number of DatabaseHandler.init() calls explored
MaxGen == 3

\* number of websocket messages explored
MaxMsgs == 1

\* the sockets that connect for the email
MaxSocks == 2

\* the frames the sockets receive
MaxFrames == 2

\* last calendar day explored
MaxDay == 1

\* number of Deepseek.send / send_stream calls explored
MaxSends == 2

Users == {"u1", "u2"}
Callers == {"loop", "worker"}
TimerIds == 1..MaxTimers
Values == 0..MaxVal
Gens == 0..MaxGen
Days == 0..MaxDay
SessIds == 1..MaxSends
NoTimer == 0
None == <<>>
\* no such row / no such object
Absent == -1
\* intents explored: chat, change weight, log food, report record, none
Intents == {0, 1, 8, 9, 11}

VARIABLES
  now,            \* time.time()
  save_pending,   \* DatabaseHandler._save_pending
  last_saved,     \* DatabaseHandler._last_saved
  save_lock,      \* the threads inside "with DatabaseHandler._save_lock"
  save_timer,     \* DatabaseHandler._save_timer (NoTimer: attribute absent)
  timer,          \* the Timer threads: state and wake-up time
  pc,             \* position of each caller inside save()
  current_time,   \* save()'s local current_time, per caller (0 outside save)
  gen,            \* number of DatabaseHandler.init() calls so far
  today,          \* datetime.now().date()
  hr,             \* heap of HealthRecord objects: <<email, gen>> -> weight
  ik,             \* heap of Intake objects: <<email, gen, date>> -> total
  health_record,  \* DatabaseHandler.health_record: the objects in the list
  health_record_cache,   \* DatabaseHandler._health_record_cache
  intake_history,        \* DatabaseHandler.intake_history: the histories
  intake_history_cache,  \* DatabaseHandler._intake_history_cache
  store,          \* backing store: tables health_records, intakes, sessions
  user_cache,     \* UserDataCache._cache: email -> entry or None
  conn,           \* websocket_endpoint locals of each open connection
  msg,            \* the message each connection is handling
  session,        \* DatabaseHandler.session: the sessions in the list
  after,          \* what the event loop resumes when save() returns
  msgs,           \* number of websocket messages received
  calls,          \* number of save() calls started
  wip,            \* threads with a backing-store write in progress
  nwrites,        \* history: number of backing-store writes performed
  wstart,         \* history: when the write in progress started
  writes,         \* history: start times of the last two writes that succeeded
  hist,           \* history: the last two save() calls that have ended
  unguarded,      \* history: flag/timestamp/timer state touched without lock
  unflushed,      \* history: a deferred save() awaits its flush
  expect,         \* history: the weight each user's last saved mutation set
  ended,          \* history: the message handled last
  attr,           \* the fields but weight of the HealthRecord and Intent
                  \* objects, and the number of foods and the fat total of
                  \* the Intake objects: <<object, field>> -> value
  reply,          \* history: the frame that ended the last message
  API_CACHE,      \* deepseek_handler.API_CACHE: cache key -> completion
  _intent_prediction_cache,  \* IntentPredictor._intent_prediction_cache
  req,            \* the DeepseekAPI.send / send_stream call in progress
  stream,         \* the response body a send_stream call is reading
  returned,       \* history: what send last returned for a key still cached
  predicted,      \* history: the IntentPredictor.predict calls of a message
  active_connections,  \* ConnectionManager.active_connections: id -> socket
  ws              \* the websocket_endpoint coroutine of each socket

saveVars == <<save_pending, last_saved, save_lock, save_timer, timer, pc,
              current_time, calls, wip>>
heapVars == <<gen, today, hr, ik, health_record, health_record_cache,
              intake_history, intake_history_cache>>
memVars  == <<heapVars, store>>
wsVars   == <<user_cache, conn, msg, session, msgs>>
histVars == <<nwrites, wstart, writes, hist, unguarded, unflushed>>
appVars  == <<wsVars, after, ended>>
envVars  == <<appVars, expect>>
clientVars == <<API_CACHE, _intent_prediction_cache, req, stream, returned,
               predicted>>
fieldVars == <<attr, reply>>
sockVars == <<active_connections, ws>>
vars == <<now, saveVars, memVars, histVars, envVars, fieldVars, clientVars,
         sockVars>>

\* --------------------------------------------------------------------------
\* Helpers
\* --------------------------------------------------------------------------
TimerThread(k) == ToString(k)

\* threading.Thread.is_alive(): true from start() until run() has ended
is_alive(k) == timer[k].st \in {"waiting", "run", "write", "exiting"}

\* number of Timer objects created so far
TimersUsed == Cardinality({k \in TimerIds : timer[k].st # "unused"})

\* "with DatabaseHandler._save_lock:" waits until no thread holds the lock
AcquireLock(t) == save_lock = {}

\* a with block that takes no lock
WithLock_NotTaken(t) == save_lock

\* the holders of the lock once t is inside the with block
WithLock(t) == save_lock \cup {t}

\* leaving the with block (normally or by an exception)
Released(t, holders) == holders \ {t}

\* an access to _save_pending/_last_saved/_save_timer by t after the step
Touch(t, holders) == unguarded \/ t \notin holders

\* an empty UserDataCache slot, a closed connection, no message, no resume
NoEntry == [set |-> FALSE, health_record |-> None, intake |-> None,
            intake_history |-> None]
Closed == [open |-> FALSE, user_record |-> None, user_intake |-> None]
Idle == [st |-> "idle", intent |-> 0, sess |-> 0, held |-> FALSE,
         temperature |-> 0, old |-> 0, intake |-> None]
NoSession == [email |-> "", n |-> 0]
NoResume == [op |-> "none", u |-> ""]
NoMsg == [u |-> "", intent |-> 0, mutated |-> FALSE, saved |-> FALSE,
          out |-> "none"]
NoExpect == [val |-> 0, st |-> "none"]

\* the event loop runs one coroutine segment at a time
LoopFree == pc["loop"] = "idle" /\ after = NoResume

\* a history of the last two events
Last2(h, x) == IF Len(h) < 2 THEN Append(h, x) ELSE <<h[2], x>>

\* the object of email e in a list of objects, or None
ObjectOf(list, e) ==
  IF \E o \in list : o[1] = e THEN CHOOSE o \in list : o[1] = e ELSE None

\* the dates of the intakes of history h
DatesOf(h) == {d \in Days : ik[<<h[1], h[2], d>>] # Absent}

\* a saved mutation awaits the next flush; a flush that starts takes the
\* mutations awaiting it and, when it succeeds, has to have stored them
Moved(ex, from, to) ==
  [u \in Users |-> IF ex[u].st = from
                     THEN [ex[u] EXCEPT !.st = to] ELSE ex[u]]
Started(ex) == Moved(ex, "awaiting", "inflight")
Flushed(ex) == Moved(ex, "inflight", "flushed")
Aborted(ex) == Moved(ex, "inflight", "awaiting")

\* _save_data_to_supabase: upsert every health record of the list by email
\* (for the users in whoHr), every intake of every history of the list by
\* (email, date) (for the users in whoIk), every session of the list (for
\* the sessions in whoS)
SaveData(tbl, whoHr, whoIk, whoS) ==
  [health_records |->
     [e \in Users |->
        IF e \in whoHr /\ ObjectOf(health_record, e) # None
          THEN hr[ObjectOf(health_record, e)]
          ELSE tbl.health_records[e]],
   intakes |->
     [e \in Users |-> [d \in Days |->
        IF e \in whoIk /\ ObjectOf(intake_history, e) # None
                       /\ d \in DatesOf(ObjectOf(intake_history, e))
          THEN ik[<<e, ObjectOf(intake_history, e)[2], d>>]
          ELSE tbl.intakes[e][d]]],
   sessions |->
     [i \in SessIds |->
        IF i \in whoS /\ session[i].n > 0 THEN session[i]
                                          ELSE tbl.sessions[i]]]

_save_data_to_supabase == SaveData(store, Users, Users, SessIds)

\* where _save_data_to_supabase can raise: inside the first table, inside
\* the second once the first is written, inside the third once the second
\* is, the sessions being written in the order of the list
FailPoints ==
  {<<done, {}, {}>> : done \in SUBSET Users} \cup
  {<<Users, done, {}>> : done \in (SUBSET Users) \ {Users}} \cup
  {<<Users, Users, 1..k>> : k \in 0..(MaxSends - 1)}

\* the store call raises before any row is written
FailAtOnce == <<{}, {}, {}>>

\* the record of a save() call that has ended
Ended(t, out, ls2, pend2, st2, nw2) ==
  [ct |-> current_time[t], ls |-> last_saved, out |-> out,
   ls2 |-> ls2, pend2 |-> pend2, synced |-> (st2 = SaveData(st2, Users, Users, SessIds)),
   nw |-> nw2]

\* --------------------------------------------------------------------------
\* DatabaseHandler.save(), step by step
\* --------------------------------------------------------------------------
\* current_time = time.time(), read before the lock is taken
CallSave(t) ==
  /\ pc[t] = "idle"
  /\ calls < MaxCalls
  /\ calls' = calls + 1
  /\ current_time' = [current_time EXCEPT ![t] = now]
  /\ pc' = [pc EXCEPT ![t] = "lock"]
  /\ UNCHANGED <<now, save_pending, last_saved, save_lock, save_timer, timer,
                 wip, histVars>>

\* save() called by a thread that changed nothing
SaveBegin(t) ==
  /\ CallSave(t)
  /\ after = NoResume
  /\ UNCHANGED <<memVars, envVars,
                 fieldVars, clientVars,
                 sockVars>>

\* lock taken, flag set, interval elapsed: the write starts
SaveEnterWrite(t) ==
  /\ pc[t] = "lock"
  /\ AcquireLock(t)
  /\ current_time[t] - last_saved >= save_interval
  /\ save_pending' = TRUE
  /\ save_lock' = WithLock(t)
  /\ pc' = [pc EXCEPT ![t] = "write"]
  /\ wip' = wip \cup {t}
  /\ unguarded' = Touch(t, save_lock')
  /\ expect' = Started(expect)
  /\ wstart' = now
  /\ UNCHANGED <<now, last_saved, save_timer, timer, current_time, calls,
                 memVars, appVars, nwrites, writes, hist, unflushed,
                 fieldVars, clientVars,
                 sockVars>>

\* a timer armed whether or not the previous one is alive
ArmTimer_Unchecked(t) ==
  /\ TimersUsed < MaxTimers
  /\ LET k == TimersUsed + 1
         delay == save_interval - (current_time[t] - last_saved)
     IN /\ timer' = [timer EXCEPT ![k] = [st |-> "waiting",
                                          fireAt |-> now + delay]]
        /\ save_timer' = k

\* the timer save() arms when none is alive
ArmTimer(t) ==
  IF save_timer = NoTimer \/ ~is_alive(save_timer)
    THEN /\ TimersUsed < MaxTimers
         /\ LET k == TimersUsed + 1
                delay == save_interval - (current_time[t] - last_saved)
            IN /\ timer' = [timer EXCEPT ![k] = [st |-> "waiting",
                                                 fireAt |-> now + delay]]
               /\ save_timer' = k
    ELSE UNCHANGED <<timer, save_timer>>

\* lock taken, flag set, interval not elapsed: timer armed, lock released
SaveEnterDefer(t) ==
  /\ pc[t] = "lock"
  /\ AcquireLock(t)
  /\ current_time[t] - last_saved < save_interval
  /\ save_pending' = TRUE
  /\ ArmTimer(t)
  /\ pc' = [pc EXCEPT ![t] = "idle"]
  /\ save_lock' = Released(t, WithLock(t))
  /\ unguarded' = Touch(t, WithLock(t))
  /\ unflushed' = TRUE
  /\ hist' = Last2(hist, Ended(t, "deferred", last_saved, TRUE, store, nwrites))
  /\ current_time' = [current_time EXCEPT ![t] = 0]
  /\ UNCHANGED <<now, last_saved, calls, wip, memVars, envVars, nwrites,
                 wstart, writes,
                 fieldVars, clientVars,
                 sockVars>>

\* a timestamp read when the write has ended
SaveStamp_AtEnd(t) == now

\* the timestamp save() records: the time it read when it was called
SaveStamp(t) == current_time[t]

\* _save_data_to_supabase() returns: timestamp, flag, lock released
SaveWriteOk(t) ==
  /\ pc[t] = "write"
  /\ store' = _save_data_to_supabase
  /\ last_saved' = SaveStamp(t)
  /\ save_pending' = FALSE
  /\ save_lock' = Released(t, save_lock)
  /\ wip' = wip \ {t}
  /\ pc' = [pc EXCEPT ![t] = "idle"]
  /\ unguarded' = Touch(t, save_lock)
  /\ unflushed' = FALSE
  /\ nwrites' = nwrites + 1
  /\ writes' = Last2(writes, [at |-> wstart])
  /\ wstart' = 0
  /\ hist' = Last2(hist, Ended(t, "wrote", last_saved', save_pending', store', nwrites'))
  /\ expect' = Flushed(expect)
  /\ current_time' = [current_time EXCEPT ![t] = 0]
  /\ UNCHANGED <<now, save_timer, timer, calls, heapVars, wsVars, after,
                 ended,
                 fieldVars, clientVars,
                 sockVars>>

\* an exception swallowed: the assignments after the store call run
OnWriteError_Swallowed == [pending |-> FALSE, last |-> now]

\* flag and timestamp when the store call has raised: the assignments that
\* follow the call are skipped
OnWriteError == [pending |-> save_pending, last |-> last_saved]

\* _save_data_to_supabase() raises at fail point fp; the exception leaves
\* save() and whatever called it: the handler of a message answers with the
\* error frame (the route with HTTP 500) instead of its reply
SaveWriteFail(t, fp) ==
  /\ pc[t] = "write"
  /\ store' = SaveData(store, fp[1], fp[2], fp[3])
  /\ after' = IF t = "loop" THEN NoResume ELSE after
  /\ save_lock' = Released(t, save_lock)
  /\ wip' = wip \ {t}
  /\ pc' = [pc EXCEPT ![t] = "idle"]
  /\ unflushed' = FALSE
  /\ save_pending' = OnWriteError.pending
  /\ last_saved' = OnWriteError.last
  /\ hist' = Last2(hist, Ended(t, "raised", last_saved', save_pending',
                                store', nwrites))
  /\ expect' = Aborted(expect)
  /\ current_time' = [current_time EXCEPT ![t] = 0]
  /\ wstart' = 0
  /\ reply' = IF t = "loop" /\ after = NoResume /\ ended.saved
                THEN [reply EXCEPT !.kind = "error"] ELSE reply
  /\ UNCHANGED <<now, save_timer, timer, calls, heapVars, wsVars, ended,
                 nwrites, writes, unguarded, attr, clientVars,
                 sockVars>>

\* --------------------------------------------------------------------------
\* The threading.Timer thread running DatabaseHandler._delayed_save()
\* --------------------------------------------------------------------------
\* the timer's wait is over: run() calls _delayed_save
TimerFire(k) ==
  /\ timer[k].st = "waiting"
  /\ now >= timer[k].fireAt
  /\ timer' = [timer EXCEPT ![k] = [st |-> "run", fireAt |-> 0]]
  /\ UNCHANGED <<now, save_pending, last_saved, save_lock, save_timer, pc,
                 current_time, calls, wip, memVars, envVars, histVars,
                 fieldVars, clientVars,
                 sockVars>>

\* lock taken, flag found set: the write starts
DelayedEnterWrite(k) ==
  /\ timer[k].st = "run"
  /\ AcquireLock(TimerThread(k))
  /\ save_pending
  /\ save_lock' = WithLock(TimerThread(k))
  /\ timer' = [timer EXCEPT ![k].st = "write"]
  /\ wip' = wip \cup {TimerThread(k)}
  /\ unguarded' = Touch(TimerThread(k), save_lock')
  /\ expect' = Started(expect)
  /\ wstart' = now
  /\ UNCHANGED <<now, save_pending, last_saved, save_timer, pc, current_time,
                 calls, memVars, appVars, nwrites, writes, hist, unflushed,
                 fieldVars, clientVars,
                 sockVars>>

\* lock taken, flag found clear: nothing to do, lock released
DelayedEnterSkip(k) ==
  /\ timer[k].st = "run"
  /\ AcquireLock(TimerThread(k))
  /\ ~save_pending
  /\ save_lock' = Released(TimerThread(k), WithLock(TimerThread(k)))
  /\ unguarded' = Touch(TimerThread(k), WithLock(TimerThread(k)))
  /\ timer' = [timer EXCEPT ![k].st = "exiting"]
  /\ UNCHANGED <<now, save_pending, last_saved, save_timer, pc, current_time,
                 calls, wip, memVars, envVars, nwrites, wstart, writes, hist,
                 unflushed,
                 fieldVars, clientVars,
                 sockVars>>

\* the write returns: timestamp taken now, flag cleared, lock released
DelayedWriteOk(k) ==
  /\ timer[k].st = "write"
  /\ store' = _save_data_to_supabase
  /\ last_saved' = now
  /\ save_pending' = FALSE
  /\ save_lock' = Released(TimerThread(k), save_lock)
  /\ wip' = wip \ {TimerThread(k)}
  /\ timer' = [timer EXCEPT ![k].st = "exiting"]
  /\ unguarded' = Touch(TimerThread(k), save_lock)
  /\ unflushed' = FALSE
  /\ nwrites' = nwrites + 1
  /\ writes' = Last2(writes, [at |-> wstart])
  /\ wstart' = 0
  /\ expect' = Flushed(expect)
  /\ UNCHANGED <<now, save_timer, pc, current_time, calls, heapVars, wsVars,
                 after, ended, hist,
                 fieldVars, clientVars,
                 sockVars>>

\* the write raises at fail point fp: the exception ends the thread
DelayedWriteFail(k, fp) ==
  /\ timer[k].st = "write"
  /\ store' = SaveData(store, fp[1], fp[2], fp[3])
  /\ save_lock' = Released(TimerThread(k), save_lock)
  /\ wip' = wip \ {TimerThread(k)}
  /\ timer' = [timer EXCEPT ![k].st = "exiting"]
  /\ unflushed' = FALSE
  /\ expect' = Aborted(expect)
  /\ wstart' = 0
  /\ save_pending' = OnWriteError.pending
  /\ last_saved' = OnWriteError.last
  /\ UNCHANGED <<now, save_timer, pc, current_time, calls, heapVars, appVars,
                 nwrites, writes, hist, unguarded,
                 fieldVars, clientVars,
                 sockVars>>

\* run() has ended: is_alive() is false from here on
TimerExit(k) ==
  /\ timer[k].st = "exiting"
  /\ timer' = [timer EXCEPT ![k].st = "finished"]
  /\ UNCHANGED <<now, save_pending, last_saved, save_lock, save_timer, pc,
                 current_time, calls, wip, memVars, envVars, histVars,
                 fieldVars, clientVars,
                 sockVars>>

\* --------------------------------------------------------------------------
\* The working set: DatabaseHandler's lists and lookup caches
\* --------------------------------------------------------------------------
\* DatabaseHandler's class attributes as one value
Heap ==
  [gen |-> gen, hr |-> hr, ik |-> ik, hl |-> health_record,
   hc |-> health_record_cache, il |-> intake_history,
   ic |-> intake_history_cache]

\* the rows of the store as lists of fresh objects of generation g
Loaded(g, tbl) ==
  [hl |-> {<<e, g>> : e \in {x \in Users : tbl.health_records[x] # Absent}},
   il |-> {<<e, g>> : e \in {x \in Users :
                               \E d \in Days : tbl.intakes[x][d] # Absent}}]

\* init() when _load_data_from_supabase succeeds: every list is replaced by
\* new objects built from the rows, then _init_caches rebuilds the caches
init_loaded(H) ==
  LET g == H.gen + 1
      L == Loaded(g, store)
  IN [gen |-> g,
      hl |-> L.hl,
      il |-> L.il,
      hr |-> [o \in DOMAIN H.hr |->
                IF o \in L.hl THEN store.health_records[o[1]] ELSE H.hr[o]],
      ik |-> [c \in DOMAIN H.ik |->
                IF <<c[1], c[2]>> \in L.il
                  THEN store.intakes[c[1]][c[3]] ELSE H.ik[c]],
      hc |-> [e \in Users |-> ObjectOf(L.hl, e)],
      ic |-> [e \in Users |-> ObjectOf(L.il, e)]]

\* init() when the load raises: the lists are emptied, the caches are kept
init_failed(H) ==
  [H EXCEPT !.gen = H.gen + 1, !.hl = {}, !.il = {}]

\* find_health_record: cache first, then the list; None when there is none
find_health_record(H, e) ==
  IF H.hc[e] # None THEN H.hc[e] ELSE ObjectOf(H.hl, e)

\* find_intake_history: cache first, then the list, else a new history
find_intake_history(H, e) ==
  IF H.ic[e] # None THEN H.ic[e]
  ELSE IF ObjectOf(H.il, e) # None THEN ObjectOf(H.il, e)
  ELSE <<e, H.gen>>

\* a lookup that returns the first intake of the history whatever its date
find_intake_AnyDate(H, e, d) ==
  LET h == find_intake_history(H, e)
      ds == {x \in Days : H.ik[<<h[1], h[2], x>>] # Absent}
  IN IF ds # {} THEN <<h[1], h[2], CHOOSE x \in ds : \A y \in ds : x <= y>>
                ELSE <<h[1], h[2], d>>

\* find_intake: the intake dated d of the history, created when missing
find_intake(H, e, d) ==
  LET h == find_intake_history(H, e) IN <<h[1], h[2], d>>

\* DatabaseHandler after find_health_record(e) and find_intake(e) on day d
AfterFind(H, e, d) ==
  LET h == find_intake_history(H, e)
      c == find_intake(H, e, d)
  IN [H EXCEPT !.hc[e] = find_health_record(H, e),
               !.ic[e] = h,
               !.il = IF H.ic[e] = None THEN H.il \cup {h} ELSE H.il,
               !.ik[c] = IF H.ik[c] = Absent THEN 0 ELSE H.ik[c]]

\* objects no reference reaches are dropped
Collect(H, uc, cn) ==
  LET liveHr == H.hl \cup {H.hc[e] : e \in Users}
                     \cup {uc[e].health_record : e \in Users}
                     \cup {cn[e].user_record : e \in Users}
      liveHist == H.il \cup {H.ic[e] : e \in Users}
                       \cup {uc[e].intake_history : e \in Users}
      liveIk == {uc[e].intake : e \in Users} \cup
                {cn[e].user_intake : e \in Users}
  IN [H EXCEPT
        !.hr = [o \in DOMAIN H.hr |->
                  IF o \in liveHr THEN H.hr[o] ELSE Absent],
        !.ik = [c \in DOMAIN H.ik |->
                  IF <<c[1], c[2]>> \in liveHist \/ c \in liveIk
                    THEN H.ik[c] ELSE Absent]]

\* init() replaces DatabaseHandler.session too: by the sessions loaded from
\* the store, or by the empty list; a session object a running
\* Deepseek.send holds is no longer the list's
Orphaned(m) == [u \in Users |-> [m[u] EXCEPT !.held = FALSE]]

SessionsLoaded ==
  /\ session' = store.sessions
  /\ msg' = Orphaned(msg)

SessionsEmptied ==
  /\ session' = [i \in SessIds |-> NoSession]
  /\ msg' = Orphaned(msg)

\* the class attributes take the values of H
SetHeap(H) ==
  /\ gen' = H.gen
  /\ hr' = H.hr
  /\ ik' = H.ik
  /\ health_record' = H.hl
  /\ health_record_cache' = H.hc
  /\ intake_history' = H.il
  /\ intake_history_cache' = H.ic

\* --------------------------------------------------------------------------
\* websocket_endpoint: connection set-up, and AuthHandler.login
\* --------------------------------------------------------------------------
\* the rest of the connection set-up once init() has returned: the records
\* are looked up (cache empty), or taken from the cache; the cached intake
\* is always looked up again, its date being a string and today a date
Connected(H, u) ==
  LET H2 == AfterFind(H, u, today)
      rec == IF user_cache[u].set THEN user_cache[u].health_record
                                  ELSE find_health_record(H, u)
      H3 == IF user_cache[u].set THEN [H2 EXCEPT !.hc = H.hc] ELSE H2
      uc == [user_cache EXCEPT ![u].set = TRUE,
                               ![u].health_record = rec,
                               ![u].intake = find_intake(H, u, today)]
      cn == [conn EXCEPT ![u] = [open |-> TRUE, user_record |-> rec,
                                 user_intake |-> find_intake(H, u, today)]]
  IN /\ user_cache' = uc
     /\ conn' = cn
     /\ SetHeap(Collect(H3, uc, cn))

\* _preload_user_data once init() has returned
Preloaded(H, u) ==
  LET H2 == AfterFind(H, u, today)
      uc == [user_cache EXCEPT ![u] =
               [set |-> TRUE,
                health_record |-> find_health_record(H, u),
                intake |-> find_intake(H, u, today),
                intake_history |-> find_intake_history(H, u)]]
  IN /\ user_cache' = uc
     /\ UNCHANGED conn
     /\ SetHeap(Collect(H2, uc, conn))

\* a websocket connects and finds its UserDataCache entry
ConnectCached(u) ==
  /\ LoopFree
  /\ ~conn[u].open
  /\ user_cache[u].set
  /\ Connected(Heap, u)
  /\ UNCHANGED <<now, saveVars, store, today, msg, session, msgs, after,
                 histVars, expect, ended,
                 fieldVars, clientVars,
                 sockVars>>

\* a websocket connects, finds no entry and init() loads the store
ConnectLoad(u) ==
  /\ LoopFree
  /\ ~conn[u].open
  /\ ~user_cache[u].set
  /\ gen < MaxGen
  /\ Connected(init_loaded(Heap), u)
  /\ SessionsLoaded
  /\ UNCHANGED <<now, saveVars, store, today, msgs, after, histVars, expect,
                 ended,
                 fieldVars, clientVars,
                 sockVars>>

\* init() when the load raises, inside a connect or a login: the lists are
\* emptied and save() is called; the caller resumes when save() returns
InitFails(op, u) ==
  /\ LoopFree
  /\ gen < MaxGen
  /\ \/ op = "connect" /\ ~conn[u].open /\ ~user_cache[u].set
     \/ op = "login"
  /\ SetHeap(Collect(init_failed(Heap), user_cache, conn))
  /\ SessionsEmptied
  /\ CallSave("loop")
  /\ after' = [op |-> op, u |-> u]
  /\ UNCHANGED <<store, today, user_cache, conn, msgs, expect, ended,
                 fieldVars, clientVars,
                 sockVars>>

\* save() has returned into init(): the connect or the login goes on
Resume(u) ==
  /\ pc["loop"] = "idle"
  /\ after.op # "none" /\ after.u = u
  /\ IF after.op = "connect" THEN Connected(Heap, u) ELSE Preloaded(Heap, u)
  /\ after' = NoResume
  /\ UNCHANGED <<now, saveVars, store, today, msg, session, msgs, histVars,
                 expect, ended,
                 fieldVars, clientVars,
                 sockVars>>

\* AuthHandler.login: _preload_user_data after a successful load
Login(u) ==
  /\ LoopFree
  /\ gen < MaxGen
  /\ Preloaded(init_loaded(Heap), u)
  /\ SessionsLoaded
  /\ UNCHANGED <<now, saveVars, store, today, msgs, after, histVars, expect,
                 ended,
                 fieldVars, clientVars,
                 sockVars>>

\* the websocket disconnects: the connection's locals are gone
Disconnect(u) ==
  /\ LoopFree
  /\ conn[u].open
  /\ msg[u].st = "idle"
  /\ conn' = [conn EXCEPT ![u] = Closed]
  /\ SetHeap(Collect(Heap, user_cache, conn'))
  /\ UNCHANGED <<now, saveVars, store, today, user_cache, msg, session, msgs,
                 after, histVars, expect, ended,
                 fieldVars, clientVars,
                 sockVars>>

\* --------------------------------------------------------------------------
\* Conversions of texts
\* --------------------------------------------------------------------------
\* str.strip() and int() on a text
Whitespace == {" ", "\n", "\t"}
DigitChars == <<"0", "1", "2", "3", "4", "5", "6", "7", "8", "9">>
IsDigit(c) == \E i \in 1..Len(DigitChars) : DigitChars[i] = c
DigitVal(c) == (CHOOSE i \in 1..Len(DigitChars) : DigitChars[i] = c) - 1

RECURSIVE lstrip(_)
lstrip(s) ==
  IF s # <<>> /\ Head(s) \in Whitespace THEN lstrip(Tail(s)) ELSE s

RECURSIVE rstrip(_)
rstrip(s) ==
  IF s # <<>> /\ s[Len(s)] \in Whitespace
    THEN rstrip(SubSeq(s, 1, Len(s) - 1)) ELSE s

strip(s) == rstrip(lstrip(s))

RECURSIVE DigitsVal(_)
DigitsVal(s) ==
  IF s = <<>> THEN 0
  ELSE 10 * DigitsVal(SubSeq(s, 1, Len(s) - 1)) + DigitVal(s[Len(s)])

ValueError == [err |-> TRUE, val |-> 0]

\* int(text): an optional sign and decimal digits, else ValueError
int(s) ==
  LET t == strip(s)
      signed == t # <<>> /\ Head(t) \in {"-", "+"}
      d == IF signed THEN Tail(t) ELSE t
  IN IF d = <<>> \/ \E i \in 1..Len(d) : ~IsDigit(d[i])
       THEN ValueError
       ELSE [err |-> FALSE,
             val |-> IF signed /\ Head(t) = "-" THEN 0 - DigitsVal(d)
                                               ELSE DigitsVal(d)]

\* a conversion that reads the first digit of the text, and 0 when the text
\* has none
float_Lenient(s) ==
  LET d == {i \in 1..Len(s) : IsDigit(s[i])}
  IN [err |-> FALSE,
      val |-> IF d = {} THEN 0
              ELSE DigitVal(s[CHOOSE i \in d : \A j \in d : i <= j])]

\* float(text): an optional sign, decimal digits and an optional fraction,
\* else ValueError; the fractions explored are zero, so that the value is
\* the whole part
float(s) ==
  LET t == strip(s)
      signed == t # <<>> /\ Head(t) \in {"-", "+"}
      d == IF signed THEN Tail(t) ELSE t
      dots == {i \in 1..Len(d) : d[i] = "."}
      dot == CHOOSE i \in dots : TRUE
      whole == IF dots = {} THEN d ELSE SubSeq(d, 1, dot - 1)
      frac == IF dots = {} THEN <<>> ELSE SubSeq(d, dot + 1, Len(d))
  IN IF \/ Cardinality(dots) > 1
        \/ whole \o frac = <<>>
        \/ \E i \in 1..Len(whole) : ~IsDigit(whole[i])
        \/ \E i \in 1..Len(frac) : ~IsDigit(frac[i])
       THEN ValueError
       ELSE [err |-> FALSE,
             val |-> IF signed /\ Head(t) = "-" THEN 0 - DigitsVal(whole)
                                               ELSE DigitsVal(whole)]

\* --------------------------------------------------------------------------
\* websocket_endpoint: the handling of one message
\* --------------------------------------------------------------------------
\* the temperature of Deepseek.send and Deepseek.send_stream when none is
\* given, 0.7, in tenths
DefaultTemperature == 7

\* the texts the completion service answers to a dispatch prompt
ReplyTexts ==
  {<<"n", "o">>} \cup {<<" ", DigitChars[v + 1], ".", "0">> : v \in Values}

\* a completion as the handlers of the numeric intents see it: float(text)
\* raises (kind "text") or gives val (kind "num")
Completion(t) ==
  [kind |-> IF float(t).err THEN "text" ELSE "num", val |-> float(t).val,
   text |-> t]

NoCompletion == [kind |-> "none", val |-> 0, text |-> <<>>]

\* what the completion service answers: an error, a text that is no number,
\* or a number; for the food log a number stands for the dictionary with
\* foods, carbohydrate, fat and protein, every amount being that number, and
\* a text for an answer that is neither JSON nor a literal
Responses ==
  {[kind |-> "error", val |-> 0, text |-> <<>>]} \cup
  {Completion(t) : t \in ReplyTexts}

\* for the food log also a dictionary with foods and carbohydrate that
\* lacks fat and protein
FoodResponses ==
  Responses \cup
  {[kind |-> "partial", val |-> v, text |-> <<"{", "}">>] : v \in Values}

\* the field each intent updates; 6 and 7 are fields of the Intent object,
\* which is named like the HealthRecord loaded with it
FieldNames ==
  <<"weight", "height", "food_allergies", "daily_activities",
    "medical_record", "weight_goal", "general_goal">>

\* the intents whose handler converts the completion with float()
NumericIntents == {1, 2, 6}

\* the value of a field of a record object
FieldValue(o, f) == IF f = "weight" THEN hr[o] ELSE attr[<<o, f>>]

\* "old_value = user_record.<field>", read before the completion is awaited
OldValue(u, i) ==
  IF i \in 1..7 THEN FieldValue(conn[u].user_record, FieldNames[i]) ELSE 0

\* a sampling temperature that is the default for every prompt
PromptTemperature_Default(i) == DefaultTemperature

\* the temperature the dispatcher passes: none for the chat (intent 0), 0
\* for the other prompts
PromptTemperature(i) == IF i = 0 THEN DefaultTemperature ELSE 0

\* an assignment that flips the weight goal between 0 and 1 as well
Assign_GoalToo(o, f, v) ==
  [attr EXCEPT ![<<o, "weight_goal">>] = IF @ = 0 THEN 1 ELSE 0,
               ![<<o, f>>] = v]

\* "user_record.<field> = new_value"
Assign(o, f, v) == [attr EXCEPT ![<<o, f>>] = v]

\* the frame that ends the handling of u's message: its kind, the old and
\* the new value it quotes, and the temperature, the text and the number of
\* the completion the handler asked for
NoFrame ==
  [kind |-> "none", old |-> 0, new |-> 0, temperature |-> 0, text |-> <<>>,
   val |-> 0]
Frame(u, kind, new, r) ==
  [kind |-> kind, old |-> msg[u].old, new |-> new,
   temperature |-> msg[u].temperature, text |-> r.text, val |-> r.val]

\* the handling of a message has ended
Handled(u, i, mutated, saved, out) ==
  [u |-> u, intent |-> i, mutated |-> mutated, saved |-> saved, out |-> out]

\* the handling of u's message ends without save()
EndMessage(u, mutated, out) ==
  /\ ended' = Handled(u, msg[u].intent, mutated, FALSE, out)
  /\ msg' = [msg EXCEPT ![u] = Idle]
  /\ UNCHANGED <<now, saveVars, histVars, after, expect>>

\* the handling of u's message calls save() and ends when it returns
SaveAndEnd(u, mutated) ==
  /\ ended' = Handled(u, msg[u].intent, mutated, TRUE, "ok")
  /\ msg' = [msg EXCEPT ![u] = Idle]
  /\ CallSave("loop")
  /\ UNCHANGED after

\* session.add_assistant_response: the session the handler holds gets the
\* answer, which shows in the list when the object is still the list's
add_assistant_response(u) ==
  IF msg[u].held THEN [session EXCEPT ![msg[u].sess].n = 2] ELSE session

\* intents 0 to 8 up to the await of the completion, the n first messages
\* being explored: the old value is read, which raises on a record that is
\* None; find_session looks for a session of the user dated datetime.now()
\* and finds none, so Deepseek.send or send_stream appends a new session and
\* adds the user prompt to it
SendPromptWithin(u, i, n) ==
  /\ LoopFree
  /\ conn[u].open /\ msg[u].st = "idle"
  /\ msgs < n
  /\ i \in 0..8
  /\ i \in 1..7 => conn[u].user_record # None
  /\ msgs' = msgs + 1
  /\ session' = [session EXCEPT ![msgs'] = [email |-> u, n |-> 1]]
  /\ msg' = [msg EXCEPT ![u] = [st |-> "await", intent |-> i,
                                sess |-> msgs', held |-> TRUE,
                                temperature |-> PromptTemperature(i),
                                old |-> OldValue(u, i), intake |-> None]]
  /\ UNCHANGED <<now, saveVars, memVars, histVars, user_cache, conn, after,
                 expect, ended, fieldVars, clientVars,
                 sockVars>>

SendPrompt(u, i) == SendPromptWithin(u, i, MaxMsgs)

\* intents 9 and 10: the record is read and reported
HandleReadOnly(u, i) ==
  /\ LoopFree
  /\ conn[u].open /\ msg[u].st = "idle"
  /\ msgs < MaxMsgs
  /\ i \in {9, 10}
  /\ msgs' = msgs + 1
  /\ ended' = Handled(u, i, FALSE, FALSE,
                      IF i = 9 /\ conn[u].user_record = None THEN "error"
                                                             ELSE "ok")
  /\ reply' = Frame(u, IF ended'.out = "ok" THEN "info" ELSE "error", 0,
                    NoCompletion)
  /\ UNCHANGED <<now, saveVars, memVars, histVars, user_cache, conn, msg,
                 session, after, expect, attr, clientVars,
                 sockVars>>

\* intent 1 on a connection whose user_record is None: reading
\* user_record.weight raises and the except clause reports the error
HandleNoRecord(u, i) ==
  /\ LoopFree
  /\ conn[u].open /\ msg[u].st = "idle"
  /\ msgs < MaxMsgs
  /\ i = 1 /\ conn[u].user_record = None
  /\ msgs' = msgs + 1
  /\ ended' = Handled(u, i, FALSE, FALSE, "error")
  /\ reply' = Frame(u, "error", 0, NoCompletion)
  /\ UNCHANGED <<now, saveVars, memVars, histVars, user_cache, conn, msg,
                 session, after, expect, attr, clientVars,
                 sockVars>>

\* any other intent: save(), then the apology; the n first messages are
\* explored
HandleDefaultWithin(u, i, n) ==
  /\ LoopFree
  /\ conn[u].open /\ msg[u].st = "idle"
  /\ msgs < n
  /\ i \notin 0..10
  /\ msgs' = msgs + 1
  /\ ended' = Handled(u, i, FALSE, TRUE, "ok")
  /\ reply' = Frame(u, "undetermined", 0, NoCompletion)
  /\ CallSave("loop")
  /\ UNCHANGED <<memVars, user_cache, conn, msg, session, after, expect,
                 attr, clientVars,
                 sockVars>>

HandleDefault(u, i) == HandleDefaultWithin(u, i, MaxMsgs)

\* the completion call raises: the except clause reports the error
CompletionFails(u) ==
  /\ LoopFree
  /\ msg[u].st = "await"
  /\ EndMessage(u, TRUE, "error")
  /\ reply' = Frame(u, "error", 0, NoCompletion)
  /\ UNCHANGED <<memVars, user_cache, conn, session, msgs, attr, clientVars,
                 sockVars>>

\* intent 0: the streamed answer is added to the session, then save()
ChatReply(u) ==
  /\ LoopFree
  /\ msg[u].st = "await" /\ msg[u].intent = 0
  /\ session' = add_assistant_response(u)
  /\ reply' = Frame(u, "chat", 0, NoCompletion)
  /\ SaveAndEnd(u, TRUE)
  /\ UNCHANGED <<memVars, user_cache, conn, msgs, expect, attr, clientVars,
                 sockVars>>

\* intent 1: the answer is added to the session; float(response) raises on
\* a text, else the weight is set and save() called
WeightReply(u, r) ==
  /\ LoopFree
  /\ msg[u].st = "await" /\ msg[u].intent = 1
  /\ r.kind # "error"
  /\ session' = add_assistant_response(u)
  /\ IF r.kind = "text"
       THEN /\ EndMessage(u, TRUE, "error")
            /\ reply' = Frame(u, "error", 0, r)
            /\ UNCHANGED memVars
       ELSE /\ hr' = [hr EXCEPT ![conn[u].user_record] = r.val]
            /\ expect' = [expect EXCEPT ![u] = [val |-> r.val,
                                                st |-> "awaiting"]]
            /\ reply' = Frame(u, "updated", r.val, r)
            /\ SaveAndEnd(u, TRUE)
            /\ UNCHANGED <<gen, today, ik, health_record, health_record_cache,
                           intake_history, intake_history_cache, store>>
  /\ UNCHANGED <<user_cache, conn, msgs, attr, clientVars,
                 sockVars>>

\* intents 2 to 7: the answer is added to the session; float(response)
\* raises on a text for the height and the weight goal, else the field is
\* set, to the number or to the text, and save() called
UpdateReply(u, r) ==
  /\ LoopFree
  /\ msg[u].st = "await" /\ msg[u].intent \in 2..7
  /\ r.kind # "error"
  /\ session' = add_assistant_response(u)
  /\ IF msg[u].intent \in NumericIntents /\ r.kind = "text"
       THEN /\ EndMessage(u, TRUE, "error")
            /\ reply' = Frame(u, "error", 0, r)
            /\ UNCHANGED attr
       ELSE LET new_value == IF msg[u].intent \in NumericIntents
                               THEN r.val ELSE r.text
            IN /\ attr' = Assign(conn[u].user_record, FieldNames[msg[u].intent],
                                 new_value)
               /\ reply' = Frame(u, "updated", new_value, r)
               /\ SaveAndEnd(u, TRUE)
               /\ UNCHANGED expect
  /\ UNCHANGED <<memVars, user_cache, conn, msgs, clientVars,
                 sockVars>>

\* the fields of an Intake the model follows besides the carbohydrate
\* total: the length of the foods list and the fat total; protein is set by
\* the statement after that of fat
IntakeFields == {"foods", "fat"}

\* for the food log also a dictionary with the four keys, one food and the
\* carbohydrate amount val, whose fat amount is a text that is no number
\* ("badfat") or null ("nullfat")
AmountResponses ==
  {[kind |-> "badfat", val |-> v, text |-> <<"{", "g", "}">>] : v \in Values}
  \cup
  {[kind |-> "nullfat", val |-> v, text |-> <<"{", "n", "}">>] : v \in Values}

\* intent 8: the answer is added to the session; an answer that is not a
\* dictionary with the four keys is reported; else the foods are appended,
\* then the amounts added one after the other: float() of a text that is no
\* number raises ValueError, which is passed over and leaves the totals
\* that follow as they were, float(None) raises TypeError, which ends the
\* message; save() is called when the accumulation has not raised
FoodReply(u, r) ==
  /\ LoopFree
  /\ msg[u].st = "await" /\ msg[u].intent = 8
  /\ r.kind # "error"
  /\ session' = add_assistant_response(u)
  /\ IF r.kind \in {"text", "partial"}
       THEN /\ EndMessage(u, TRUE, "ok")
            /\ reply' = Frame(u, "food_intake_error", 0, r)
            /\ UNCHANGED <<memVars, attr>>
       ELSE LET c == conn[u].user_intake
            IN /\ ik[c] + r.val <= MaxVal
               /\ attr' = [attr EXCEPT
                    ![<<c, "foods">>] = @ + 1,
                    ![<<c, "fat">>] = IF r.kind = "num" THEN @ + r.val ELSE @]
               /\ ik' = [ik EXCEPT ![c] = @ + r.val]
               /\ IF r.kind = "nullfat"
                    THEN /\ EndMessage(u, TRUE, "error")
                         /\ reply' = Frame(u, "error", 0, r)
                    ELSE /\ reply' = Frame(u, "food_intake", ik'[c], r)
                         /\ SaveAndEnd(u, TRUE)
                         /\ UNCHANGED expect
               /\ UNCHANGED <<gen, today, hr, health_record,
                              health_record_cache, intake_history,
                              intake_history_cache, store>>
  /\ UNCHANGED <<user_cache, conn, msgs, clientVars,
                 sockVars>>

\* --------------------------------------------------------------------------
\* routes/chat.py: answer, the food log
\* --------------------------------------------------------------------------
\* GET /chat/ with intent 8 up to the await of the completion, for a user
\* whose intake of today exists: find_intake returns it and Deepseek.send
\* appends a new session
AnswerPrompt(u) ==
  /\ LoopFree
  /\ msg[u].st = "idle"
  /\ msgs < MaxSends
  /\ intake_history_cache[u] # None
  /\ ik[find_intake(Heap, u, today)] # Absent
  /\ msgs' = msgs + 1
  /\ session' = [session EXCEPT ![msgs'] = [email |-> u, n |-> 1]]
  /\ msg' = [msg EXCEPT ![u] = [st |-> "answer", intent |-> 8,
                                sess |-> msgs', held |-> TRUE,
                                temperature |-> PromptTemperature(8),
                                old |-> 0,
                                intake |-> find_intake(Heap, u, today)]]
  /\ UNCHANGED <<now, saveVars, memVars, histVars, user_cache, conn, after,
                 expect, ended, fieldVars, clientVars,
                 sockVars>>

\* the completion returns to answer: response_dict['foods'] raises KeyError
\* on the error dictionary, response_dict['fat'] on a dictionary without
\* fat, after foods and carbohydrate have been assigned; else the amounts
\* of the dictionary are assigned to the intake and save() called
AnswerFood(u, r) ==
  /\ LoopFree
  /\ msg[u].st = "answer"
  /\ r.kind # "error"
  /\ session' = add_assistant_response(u)
  /\ IF r.kind = "text"
       THEN /\ EndMessage(u, TRUE, "error")
            /\ reply' = Frame(u, "HTTP 500", 0, r)
            /\ UNCHANGED <<memVars, attr>>
       ELSE /\ ik' = [ik EXCEPT ![msg[u].intake] = r.val]
            /\ attr' = [attr EXCEPT
                 ![<<msg[u].intake, "foods">>] = 1,
                 ![<<msg[u].intake, "fat">>] = IF r.kind = "partial" THEN @
                                                                   ELSE r.val]
            /\ IF r.kind = "partial"
                 THEN /\ EndMessage(u, TRUE, "error")
                      /\ reply' = Frame(u, "HTTP 500", 0, r)
                 ELSE /\ reply' = Frame(u, "food_intake", r.val, r)
                      /\ SaveAndEnd(u, TRUE)
                      /\ UNCHANGED expect
            /\ UNCHANGED <<gen, today, hr, health_record, health_record_cache,
                           intake_history, intake_history_cache, store>>
  /\ UNCHANGED <<user_cache, conn, msgs, clientVars,
                 sockVars>>

\* --------------------------------------------------------------------------
\* Environment
\* --------------------------------------------------------------------------
\* a thread about to take the lock while nobody holds it
AtFreeLock ==
  /\ save_lock = {}
  /\ \/ \E t \in Callers : pc[t] = "lock"
     \/ \E k \in TimerIds : timer[k].st = "run"

\* the clock advances; taking a lock nobody holds takes no time
Tick ==
  /\ now + TickStep <= MaxTime
  /\ ~AtFreeLock
  /\ now' = now + TickStep
  /\ UNCHANGED <<saveVars, memVars, envVars, histVars,
                 fieldVars, clientVars,
                 sockVars>>

\* midnight passes: datetime.now().date() is the next day
NewDay ==
  /\ today < MaxDay
  /\ today' = today + 1
  /\ UNCHANGED <<now, saveVars, gen, hr, ik, health_record,
                 health_record_cache, intake_history, intake_history_cache,
                 store, histVars, envVars, fieldVars, clientVars,
                 sockVars>>

\* a handler's in-place mutation of its record, user_record.weight = v,
\* followed by save()
UpdateWeight(u, v) ==
  /\ LoopFree
  /\ conn[u].open /\ conn[u].user_record # None
  /\ hr' = [hr EXCEPT ![conn[u].user_record] = v]
  /\ expect' = [expect EXCEPT ![u] = [val |-> v, st |-> "awaiting"]]
  /\ CallSave("loop")
  /\ UNCHANGED <<gen, today, ik, health_record, health_record_cache,
                 intake_history, intake_history_cache, store, wsVars, after,
                 ended,
                 fieldVars, clientVars,
                 sockVars>>

\* --------------------------------------------------------------------------
\* DeepseekAPI, the completion client, and IntentPredictor
\* --------------------------------------------------------------------------
\* everything but the completion client and the classifier
coreNoSock == <<now, saveVars, memVars, histVars, envVars, fieldVars>>
coreVars == <<coreNoSock, sockVars>>

\* max_retries of DeepseekAPI.send and DeepseekAPI.send_stream
max_retries == 3

\* len(possible_intentions): the intents the classifier is asked to choose from
NumIntentions == 11

\* number of IntentPredictor.predict calls explored
MaxPredicts == 2

\* the user messages explored
Messages == {"m1", "m2"}

\* texts the completion service answers, as sequences of characters
Outputs == {<<" ", "8", "\n">>, <<"1", "1">>, <<"n", "o">>, <<>>}

\* what one upstream request ends with: a completion, httpx.ReadTimeout, a
\* status other than 200 (as does any other exception of the request, a
\* connect timeout included), or a body without choices[0].message.content
Upstream ==
  {[kind |-> "ok", text |-> o] : o \in Outputs} \cup
  {[kind |-> k, text |-> <<>>] : k \in {"ReadTimeout", "status", "format"}}

\* the message list predict sends, and the one a session sends
PredictMessages(m) == <<"intent_system_prompt", m>>
SessionMessages(m) == <<"system_prompt", m>>

\* DeepseekAPI.get_cache_key
get_cache_key(messages, temperature) == <<messages, temperature>>

CacheKeys ==
  {get_cache_key(PredictMessages(m), 0) : m \in Messages} \cup
  {get_cache_key(SessionMessages("m1"), 0)}

\* a cache without the entry, no call, no result
NoCached == [has |-> FALSE, val |-> <<>>]
NoIntent == [has |-> FALSE, val |-> 0]
NoOut == [kind |-> "none", text |-> <<>>]
NoReq == [st |-> "idle", kind |-> "", by |-> "", key |-> None, attempt |-> 0,
          retry_delay |-> 0, slept |-> <<>>, outcomes |-> <<>>, out |-> NoOut]

\* API_CACHE.get(cache_key) followed by "if cached_result:": a missing entry
\* and an empty text are both passed over
CacheHit(key) == API_CACHE[key].has /\ API_CACHE[key].val # <<>>

\* a client that stores no completion
CacheStore_Skipped(key, text) == API_CACHE

\* "API_CACHE[cache_key] = result"
CacheStore(key, text) ==
  [API_CACHE EXCEPT ![key] = [has |-> TRUE, val |-> text]]

\* no send has returned a text for the key since its entry expired
NoReturned == [has |-> FALSE, val |-> <<>>, streamed |-> FALSE, fresh |-> FALSE]

\* send is about to return the text it has stored: the text is the one last
\* returned for the key, by the call in progress
Returning(key, text) ==
  [returned EXCEPT ![key] = [has |-> TRUE, val |-> text, streamed |-> FALSE,
                             fresh |-> TRUE]]

\* the call in progress is back in its caller
Returns ==
  IF req.kind = "send" /\ req.out.kind = "ok"
    THEN [returned EXCEPT ![req.key].fresh = FALSE]
    ELSE returned

\* a call at its first upstream attempt: attempt = 0, retry_delay = 1
FirstAttempt(kind, by, key) ==
  [st |-> "attempt", kind |-> kind, by |-> by, key |-> key, attempt |-> 0,
   retry_delay |-> 1, slept |-> <<>>, outcomes |-> <<>>, out |-> NoOut]

\* DeepseekAPI.send up to its first await: the cached completion is returned
\* at once, else the first request is posted
send(by, key) ==
  IF CacheHit(key)
    THEN [FirstAttempt("send", by, key) EXCEPT
            !.st = "done",
            !.out = [kind |-> "ok", text |-> API_CACHE[key].val]]
    ELSE FirstAttempt("send", by, key)

\* DeepseekAPI.send_stream up to its first await: the cache is not read
send_stream(by, key) == FirstAttempt("send_stream", by, key)

\* a loop that tries once more than max_retries
RetryAllowed_OnceMore(attempt) == attempt < max_retries

\* "if attempt < max_retries - 1": a timed-out attempt is followed by another
RetryAllowed(attempt) == attempt < max_retries - 1

\* a delay that stays what it was
NextDelay_Constant(d) == d

\* "retry_delay *= 2"
NextDelay(d) == d * 2

\* number of chunks of response body explored in one send_stream call
MaxChunks == 3

\* the text fragments the completion service streams
Fragments == {"a", "b"}

\* the lines of a streamed body, "chunk_str.split('\n')": an event whose
\* payload is an object with the fragment c as its delta content, the end
\* marker, and the two parts of an event that the transport delivers in two
\* chunks: the first starts with "data: " and is no JSON, the second does not
\* start with "data: "
Delta(c) == [data |-> TRUE, body |-> "json", content |-> <<c>>]
Done == [data |-> TRUE, body |-> "[DONE]", content |-> <<>>]
CutHead(c) == [data |-> TRUE, body |-> "cut", content |-> <<c>>]
CutTail == [data |-> FALSE, body |-> "cut", content |-> <<>>]

\* the chunks response.aiter_bytes() delivers
Chunks ==
  {<<Delta(c)>> : c \in Fragments} \cup
  {<<Done>>, <<Done, Delta("b")>>, <<CutHead("a")>>, <<CutTail>>}

JSONDecodeError == [err |-> TRUE, content |-> <<>>]

\* json.loads(data_str) followed by
\* data.get("choices", [{}])[0].get("delta", {}).get("content", "")
json_loads(line) ==
  IF line.body = "json" THEN [err |-> FALSE, content |-> line.content]
                        ELSE JSONDecodeError

\* the loop over the lines of one chunk: a line that does not start with
\* "data: " is passed over, [DONE] breaks out of the loop over the lines, a
\* payload that is no JSON or has no content is passed over, a content is
\* added to full_response and yielded; the result is what is yielded
RECURSIVE Yielded(_)
Yielded(lines) ==
  IF lines = <<>> THEN <<>>
  ELSE LET line == Head(lines)
           data == json_loads(line)
       IN IF ~line.data THEN Yielded(Tail(lines))
          ELSE IF line.body = "[DONE]" THEN <<>>
          ELSE IF data.err \/ data.content = <<>> THEN Yielded(Tail(lines))
          ELSE <<data.content>> \o Yielded(Tail(lines))

\* the concatenation of texts
RECURSIVE Concat(_)
Concat(texts) ==
  IF texts = <<>> THEN <<>> ELSE Head(texts) \o Concat(Tail(texts))

\* the contents of the events among lines, up to the end marker
RECURSIVE ContentsSent(_)
ContentsSent(lines) ==
  IF lines = <<>> \/ Head(lines) = Done THEN <<>>
  ELSE Head(lines).content \o ContentsSent(Tail(lines))

\* does the seq of lines hold a line with this body
HasBody(lines, b) == \E i \in 1..Len(lines) : lines[i].body = b

\* a send_stream call before its first chunk: full_response is the local of
\* DeepseekAPI.send_stream, tokens what it has yielded since the call began,
\* open whether the body of this attempt is being read, cut whether the
\* last chunk ended inside an event, chunks the number of chunks read;
\* history: sent is the text the service sent in this attempt up to its end
\* marker, done whether the marker has come, late whether a fragment was
\* yielded after the marker, unparsed whether a payload was no JSON
NoStream ==
  [full_response |-> <<>>, tokens |-> <<>>, open |-> FALSE, cut |-> FALSE,
   chunks |-> 0, sent |-> <<>>, done |-> FALSE, late |-> FALSE,
   unparsed |-> FALSE]

\* the next iteration of the retry loop: full_response = "" again; what was
\* yielded stays with the caller
NextAttempt ==
  [stream EXCEPT !.full_response = <<>>, !.open = FALSE, !.cut = FALSE,
                 !.sent = <<>>, !.done = FALSE]

\* Deepseek.send_stream: "full_response += token" for every token yielded,
\* the text given to session.add_assistant_response when the stream ends
assistant_response == Concat(stream.tokens)

\* one chunk of the body arrives and its lines are processed
StreamChunk(c) ==
  /\ req.st = "attempt" /\ req.kind = "send_stream"
  /\ stream.chunks < MaxChunks
  /\ (Head(c) = CutTail) = stream.cut
  /\ LET y == Yielded(c)
     IN stream' = [stream EXCEPT
          !.full_response = @ \o Concat(y),
          !.tokens = @ \o y,
          !.open = TRUE,
          !.cut = HasBody(c, "cut") /\ c[Len(c)].data,
          !.chunks = @ + 1,
          !.sent = IF stream.done THEN @ ELSE @ \o ContentsSent(c),
          !.done = @ \/ HasBody(c, "[DONE]"),
          !.late = @ \/ (stream.done /\ y # <<>>),
          !.unparsed = @ \/ \E i \in 1..Len(c) :
                              /\ c[i].data /\ c[i].body # "[DONE]"
                              /\ json_loads(c[i]).err]
  /\ UNCHANGED <<coreVars, API_CACHE, _intent_prediction_cache, req,
                 returned, predicted>>

\* the body ends: full_response is cached and the generator returns
StreamEnd ==
  /\ req.st = "attempt" /\ req.kind = "send_stream"
  /\ ~stream.cut
  /\ API_CACHE' = CacheStore(req.key, stream.full_response)
  /\ returned' = [returned EXCEPT ![req.key].streamed = @ \/ returned[req.key].has]
  /\ req' = [req EXCEPT !.st = "done",
                        !.outcomes = Append(@, "ok"),
                        !.out = [kind |-> "ok", text |-> stream.full_response]]
  /\ UNCHANGED <<coreVars, _intent_prediction_cache, stream, predicted>>

\* a clause that catches every failure of the request
IsReadTimeout_AnyFailure(o) == o.kind # "ok"

\* "except httpx.ReadTimeout": the one failure the loop goes on after
IsReadTimeout(o) == o.kind = "ReadTimeout"

\* the upstream request of the call in progress ends with o: a completion is
\* cached and returned; a read timeout is followed by asyncio.sleep when
\* another attempt is allowed and raises otherwise; anything else raises.
\* A streamed request ends here with a status other than 200, which comes
\* before the body, or with a read timeout, which may come while the body
\* is read; its body is read by StreamChunk and StreamEnd
Respond(o) ==
  /\ req.st = "attempt"
  /\ req.kind = "send_stream"
       => /\ o.kind \in {"ReadTimeout", "status"}
          /\ o.kind = "status" => ~stream.open
  /\ LET r == [req EXCEPT !.outcomes = Append(@, o.kind)]
     IN CASE o.kind = "ok" ->
               /\ req' = [r EXCEPT !.st = "done", !.out = o]
               /\ API_CACHE' = CacheStore(req.key, o.text)
               /\ returned' = Returning(req.key, o.text)
          [] IsReadTimeout(o) /\ RetryAllowed(req.attempt) ->
               /\ req' = [r EXCEPT !.st = "sleep"]
               /\ UNCHANGED <<API_CACHE, returned>>
          [] OTHER ->
               /\ req' = [r EXCEPT !.st = "done",
                                   !.out = [kind |-> "raise", text |-> <<>>]]
               /\ UNCHANGED <<API_CACHE, returned>>
  /\ UNCHANGED <<coreVars, _intent_prediction_cache, stream, predicted>>

\* asyncio.sleep(retry_delay) returns: the delay is doubled and the next
\* iteration of the loop posts the request again
Wake ==
  /\ req.st = "sleep"
  /\ req' = [req EXCEPT !.st = "attempt",
                        !.slept = Append(@, req.retry_delay),
                        !.retry_delay = NextDelay(@),
                        !.attempt = @ + 1]
  /\ stream' = NextAttempt
  /\ UNCHANGED <<coreVars, API_CACHE, _intent_prediction_cache, returned,
                 predicted>>

\* the TTL of an API_CACHE entry runs out
Expire(key) ==
  /\ API_CACHE[key].has
  /\ API_CACHE' = [API_CACHE EXCEPT ![key] = NoCached]
  /\ returned' = [returned EXCEPT ![key] = NoReturned]
  /\ UNCHANGED <<coreVars, _intent_prediction_cache, req, stream, predicted>>

\* a session's completion call (Deepseek._send_messages, Deepseek.send_stream)
CallSend(kind, m) ==
  /\ req.st = "idle"
  /\ req' = IF kind = "send"
              THEN send("session", get_cache_key(SessionMessages(m), 0))
              ELSE send_stream("session", get_cache_key(SessionMessages(m), 0))
  /\ stream' = NoStream
  /\ UNCHANGED <<coreVars, API_CACHE, _intent_prediction_cache, returned,
                 predicted>>

\* the session's call has returned or raised
CallerResume ==
  /\ req.st = "done" /\ req.by = "session"
  /\ req' = NoReq
  /\ stream' = NoStream
  /\ returned' = Returns
  /\ UNCHANGED <<coreVars, API_CACHE, _intent_prediction_cache, predicted>>

\* an except clause that lets the exception through
OnPredictError_Propagated == [raised |-> TRUE, ret |-> 0]

\* predict's except clauses: ValueError and every other Exception return 0
OnPredictError == [raised |-> FALSE, ret |-> 0]

\* a predict that stores nothing
CacheIntent_Skipped(m, v) == _intent_prediction_cache

\* "_intent_prediction_cache[message] = intent_idx"
CacheIntent(m, v) ==
  [_intent_prediction_cache EXCEPT ![m] = [has |-> TRUE, val |-> v]]

\* one predict call that has ended: what it returned, whether it raised,
\* how the call went (served from the classifier cache, converted,
\* ValueError, or what DeepseekAPI.send raised on: a read timeout, a status,
\* a body of another format), and whether a request went upstream
Predicted(ret, raised, how) ==
  [ret |-> ret, raised |-> raised, how |-> how,
   upstream |-> Len(req.outcomes) > 0]

\* the predict calls of message m that have ended
Calls(m) == 1..Len(predicted[m])

\* the number of predict calls that have ended
PredictCalls == Cardinality({c \in Messages \X (1..MaxPredicts) : c[2] \in Calls(c[1])})

\* IntentPredictor.predict up to its await: a cached intent is returned,
\* else DeepseekAPI.send is called with the system prompt and the message
Predict(m) ==
  /\ req.st = "idle"
  /\ PredictCalls < MaxPredicts
  /\ IF _intent_prediction_cache[m].has
       THEN /\ predicted' =
                 [predicted EXCEPT ![m] =
                    Append(@, Predicted(_intent_prediction_cache[m].val,
                                        FALSE, "cached"))]
            /\ UNCHANGED req
       ELSE /\ req' = send("predict", get_cache_key(PredictMessages(m), 0))
            /\ UNCHANGED predicted
  /\ UNCHANGED <<coreVars, API_CACHE, _intent_prediction_cache, stream,
                 returned>>

\* DeepseekAPI.send has returned or raised inside predict: the stripped
\* text is converted, cached and returned, or an except clause answers
PredictResume ==
  /\ req.st = "done" /\ req.by = "predict"
  /\ LET m == req.key[1][2]
         parsed == IF req.out.kind = "ok" THEN int(strip(req.out.text))
                                          ELSE ValueError
     IN IF req.out.kind = "ok" /\ ~parsed.err
          THEN /\ _intent_prediction_cache' = CacheIntent(m, parsed.val)
               /\ predicted' =
                    [predicted EXCEPT ![m] =
                       Append(@, Predicted(parsed.val, FALSE, "parsed"))]
          ELSE /\ UNCHANGED _intent_prediction_cache
               /\ predicted' =
                    [predicted EXCEPT ![m] =
                       Append(@, Predicted(OnPredictError.ret,
                                           OnPredictError.raised,
                                           IF req.out.kind = "ok"
                                             THEN "ValueError"
                                             ELSE req.outcomes[Len(req.outcomes)]))]
  /\ req' = NoReq
  /\ returned' = Returns
  /\ UNCHANGED <<coreVars, API_CACHE, stream>>

\* the completion client and the classifier before their first call
ClientInit ==
  /\ API_CACHE = [k \in CacheKeys |-> NoCached]
  /\ _intent_prediction_cache = [m \in Messages |-> NoIntent]
  /\ req = NoReq
  /\ stream = NoStream
  /\ returned = [k \in CacheKeys |-> NoReturned]
  /\ predicted = [m \in Messages |-> <<>>]

ClientNext ==
  \/ \E m \in Messages : Predict(m)
  \/ PredictResume
  \/ CallSend("send", "m1")
  \/ CallerResume
  \/ \E o \in Upstream : Respond(o)
  \/ Wake
  \/ \E k \in CacheKeys : Expire(k)

\* the completion client called by the sessions: both kinds of call
StreamNext ==
  \/ \E kind \in {"send", "send_stream"} : CallSend(kind, "m1")
  \/ CallerResume
  \/ \E o \in Upstream : Respond(o)
  \/ \E c \in Chunks : StreamChunk(c)
  \/ StreamEnd
  \/ Wake
  \/ \E k \in CacheKeys : Expire(k)

\* --------------------------------------------------------------------------
\* services/websocket.py: ConnectionManager and the sockets of one email
\* --------------------------------------------------------------------------
\* the WebSocket objects that connect, one after the other
Socks == 1..MaxSocks

\* no socket is registered under the email
NoSock == 0

\* the email of the path "/ws/{email}" the sockets connect with: the user
\* whose data UserDataCache holds
Email == "u1"

\* what a frame that comes in holds: text that is no JSON, the JSON number
\* 5, an object without "message", an object with it
InboundFrames == {"invalid", "number", "nomsg", "message"}

\* the intents the classifier returns for the messages of the sockets
FrameIntents == {0, 1, 8}

\* what send_json does on a socket whose client is gone
SendOutcomes == {"raise", "lost"}

\* the fragments Deepseek.send_stream yields for a chat message
ChatFragments == <<<<"h", "i">>, <<"!">>>>

\* final_response.split() of the confirmation of case 1 and of the reply of
\* case 8 to a completion that is no dictionary with the four keys
UpdatedWords == <<"updated">>
SorryWords == <<"sorry", "format">>

\* websocket_endpoint of a socket before it has connected: st is the await
\* the coroutine stands at, open whether the client is still there, n the
\* frames received, last the kind of the last one, frames what
\* manager.send_message was called with for the last frame received;
\* pulled the fragments taken from the generator, cached and appended
\* whether the generator has stored the completion in API_CACHE and in the
\* session; history: before is the weight just before the handler's write
NoEndpoint ==
  [st |-> "new", open |-> FALSE, n |-> 0, last |-> "none", intent |-> 0,
   old_value |-> 0, new_value |-> 0, before |-> 0, final_response |-> <<>>,
   sent |-> 0, pulled |-> 0, cached |-> FALSE, appended |-> FALSE,
   frames |-> <<>>]

SockInit ==
  /\ active_connections = [e \in Users |-> NoSock]
  /\ ws = [s \in Socks |-> NoEndpoint]

\* the frames the first k sockets have received
RECURSIVE Received(_)
Received(k) == IF k = 0 THEN 0 ELSE ws[k].n + Received(k - 1)

\* ConnectionManager.send_message(client_id, ...): nothing is sent when the
\* id is not registered, else send_json on the socket registered under the
\* id, which is delivered while its client is there and raises or is lost
\* (x) when the client is gone
send_message(e, x) ==
  LET t == active_connections[e]
  IN IF t = NoSock THEN [raised |-> FALSE, to |-> NoSock, got |-> FALSE]
     ELSE IF ws[t].open THEN [raised |-> FALSE, to |-> t, got |-> TRUE]
     ELSE [raised |-> x = "raise", to |-> t, got |-> FALSE]

\* the frame of a send_message call that returned with d
Sent(status, token, w, d) ==
  [status |-> status, token |-> token, response |-> w.final_response,
   old |-> w.old_value, new |-> w.new_value, to |-> d.to, got |-> d.got]

\* ConnectionManager.disconnect(client_id)
disconnect(e) == [active_connections EXCEPT ![e] = NoSock]

\* an exception leaves the receive loop of s: "except Exception" calls
\* manager.disconnect(email) and the coroutine ends
LoopRaises(s) ==
  /\ ws' = [ws EXCEPT ![s].st = "ended"]
  /\ active_connections' = disconnect(Email)

\* s sends a frame inside the try of a message and goes on as w when the
\* call returns; when it raises, "except Exception" sends the error frame
\* on the same socket, which raises out of the loop
TrySend(s, status, token, x, w) ==
  LET d == send_message(Email, x)
  IN IF d.raised
       THEN LoopRaises(s)
       ELSE /\ ws' = [ws EXCEPT ![s] =
                        [w EXCEPT !.frames =
                           Append(ws[s].frames, Sent(status, token, w, d))]]
            /\ UNCHANGED active_connections

\* the handling of the message of s raises: the error frame is sent and the
\* loop receives again
HandlerRaises(s, x) ==
  TrySend(s, "error", <<>>, x, [ws[s] EXCEPT !.st = "receive"])

\* ConnectionManager.connect and the start of websocket_endpoint for a user
\* whose data is cached: accept, register the socket under the email,
\* whatever was registered; the intake that is looked up again is the
\* cached one, the day being the same
connect(s) ==
  /\ LoopFree
  /\ ws[s].st = "new"
  /\ user_cache[Email].set
  /\ find_intake(Heap, Email, today) = user_cache[Email].intake
  /\ active_connections' = [active_connections EXCEPT ![Email] = s]
  /\ ws' = [ws EXCEPT ![s] = [NoEndpoint EXCEPT !.st = "receive",
                                                !.open = TRUE]]
  /\ UNCHANGED <<coreNoSock, clientVars>>

\* the client of s goes away
ClientDrop(s) ==
  /\ ws[s].st \notin {"new", "ended"}
  /\ ws[s].open
  /\ ws' = [ws EXCEPT ![s].open = FALSE]
  /\ UNCHANGED <<active_connections, coreNoSock, clientVars>>

\* receive_text raises WebSocketDisconnect: manager.disconnect(email)
ReceiveDisconnect(s) ==
  /\ LoopFree
  /\ ws[s].st = "receive"
  /\ ~ws[s].open
  /\ LoopRaises(s)
  /\ UNCHANGED <<coreNoSock, clientVars>>

\* receive_text returns frame f: json.loads and the test for "message" are
\* outside the try of the message, so is the send of the frame that says
\* the field is required and of the processing frame
Receive(s, f, x) ==
  /\ LoopFree
  /\ ws[s].st = "receive"
  /\ ws[s].open
  /\ Received(MaxSocks) < MaxFrames
  /\ LET w == [ws[s] EXCEPT !.n = @ + 1, !.last = f, !.frames = <<>>,
                            !.intent = 0, !.old_value = 0, !.new_value = 0,
                            !.before = 0, !.final_response = <<>>,
                            !.sent = 0, !.pulled = 0, !.cached = FALSE,
                            !.appended = FALSE]
         d == send_message(Email, x)
     IN IF f \in {"invalid", "number"} \/ d.raised
          THEN /\ ws' = [ws EXCEPT ![s] = [w EXCEPT !.st = "ended"]]
               /\ active_connections' = disconnect(Email)
          ELSE /\ ws' = [ws EXCEPT ![s] =
                    [w EXCEPT
                       !.st = IF f = "nomsg" THEN "receive" ELSE "predict",
                       !.frames = <<Sent(IF f = "nomsg" THEN "required"
                                                        ELSE "processing",
                                         <<>>, w, d)>>]]
               /\ UNCHANGED active_connections
  /\ UNCHANGED <<coreNoSock, clientVars>>

\* IntentPredictor.predict returns i: the streaming_start frame is sent;
\* case 1 reads old_value before it awaits the completion
PredictReturns(s, i, x) ==
  /\ LoopFree
  /\ ws[s].st = "predict"
  /\ TrySend(s, "streaming_start", <<>>, x,
             [ws[s] EXCEPT
                !.intent = i,
                !.st = IF i = 0 THEN "stream" ELSE "await",
                !.old_value = IF i = 1
                                THEN hr[user_cache[Email].health_record]
                                ELSE 0])
  /\ UNCHANGED <<coreNoSock, clientVars>>

\* case 0: the generator yields its next fragment, which is sent as a
\* token; when the send raises the generator is left where it stands
StreamToken(s, x) ==
  /\ LoopFree
  /\ ws[s].st = "stream"
  /\ ws[s].pulled < Len(ChatFragments)
  /\ TrySend(s, "streaming_token", ChatFragments[ws[s].pulled + 1], x,
             [ws[s] EXCEPT !.pulled = @ + 1,
                           !.final_response = @ \o ChatFragments[ws[s].pulled + 1]])
  /\ UNCHANGED <<coreNoSock, clientVars>>

\* case 0: the generator ends: DeepseekAPI.send_stream has stored the
\* completion in API_CACHE, Deepseek.send_stream appends it to the session;
\* then save()
StreamDone(s) ==
  /\ LoopFree
  /\ ws[s].st = "stream"
  /\ ws[s].pulled = Len(ChatFragments)
  /\ ws' = [ws EXCEPT ![s].cached = TRUE, ![s].appended = TRUE,
                      ![s].st = "end"]
  /\ CallSave("loop")
  /\ UNCHANGED <<active_connections, memVars, envVars, fieldVars, clientVars>>

\* case 1: the completion is the number v: the weight is assigned, save()
\* is called and the confirmation quotes old_value
WeightAnswer(s, v) ==
  /\ LoopFree
  /\ ws[s].st = "await" /\ ws[s].intent = 1
  /\ LET o == user_cache[Email].health_record
     IN /\ hr' = [hr EXCEPT ![o] = v]
        /\ ws' = [ws EXCEPT ![s].before = hr[o], ![s].new_value = v,
                            ![s].final_response = UpdatedWords,
                            ![s].st = "words"]
  /\ CallSave("loop")
  /\ UNCHANGED <<active_connections, gen, today, ik, health_record,
                 health_record_cache, intake_history, intake_history_cache,
                 store, envVars, fieldVars, clientVars>>

\* case 8: the completion is no dictionary with the four keys:
\* final_response is sent as one token, then the statements after the
\* if/else stream its words
FoodAnswerInvalid(s, x) ==
  /\ LoopFree
  /\ ws[s].st = "await" /\ ws[s].intent = 8
  /\ TrySend(s, "streaming_token", SorryWords, x,
             [ws[s] EXCEPT !.final_response = SorryWords, !.st = "words"])
  /\ UNCHANGED <<coreNoSock, clientVars>>

\* the completion call of case 1 or case 8 raises
AnswerFails(s, x) ==
  /\ LoopFree
  /\ ws[s].st = "await"
  /\ HandlerRaises(s, x)
  /\ UNCHANGED <<coreNoSock, clientVars>>

\* "for word in final_response.split()": the next word is sent as a token
StreamWord(s, x) ==
  /\ LoopFree
  /\ ws[s].st = "words"
  /\ ws[s].sent < Len(ws[s].final_response)
  /\ TrySend(s, "streaming_token", <<ws[s].final_response[ws[s].sent + 1]>>,
             x, [ws[s] EXCEPT !.sent = @ + 1])
  /\ UNCHANGED <<coreNoSock, clientVars>>

\* the streaming_end frame with response_data, then the next receive_text
StreamingEnd(s, x) ==
  /\ LoopFree
  /\ \/ ws[s].st = "end"
     \/ ws[s].st = "words" /\ ws[s].sent = Len(ws[s].final_response)
  /\ TrySend(s, "streaming_end", <<>>, x, [ws[s] EXCEPT !.st = "receive"])
  /\ UNCHANGED <<coreNoSock, clientVars>>

\* --------------------------------------------------------------------------
\* The persistence coordinator under concurrent callers
\* --------------------------------------------------------------------------
\* a store in which the users of reg have a health record of weight 0
StoreOf(reg) ==
  [health_records |-> [e \in Users |-> IF e \in reg THEN 0 ELSE Absent],
   intakes |-> [e \in Users |-> [d \in Days |-> Absent]],
   sessions |-> [i \in SessIds |-> NoSession]]

\* the coordinator when nothing is pending: no flush has been made yet
\* (_last_saved = 0), or another route's save() has just written
CoordInit ==
  /\ now = StartTime
  /\ save_pending = FALSE
  /\ last_saved \in {0, StartTime}
  /\ save_lock = {}
  /\ save_timer = NoTimer
  /\ timer = [k \in TimerIds |-> [st |-> "unused", fireAt |-> 0]]
  /\ pc = [t \in Callers |-> "idle"]
  /\ current_time = [t \in Callers |-> 0]
  /\ calls = 0
  /\ wip = {}
  /\ nwrites = 0
  /\ wstart = 0
  /\ writes = <<>>
  /\ hist = <<>>
  /\ unguarded = FALSE
  /\ unflushed = FALSE
  /\ after = NoResume
  /\ expect = [u \in Users |-> NoExpect]
  /\ ended = NoMsg
  /\ msg = [u \in Users |-> Idle]
  /\ session = [i \in SessIds |-> NoSession]
  /\ msgs = 0
  /\ today = 0
  /\ attr = [k \in ((Users \X Gens) \X {FieldNames[i] : i \in 2..7}) \cup
                    ((Users \X Gens \X Days) \X IntakeFields) |->
               IF k[2] \in {FieldNames[i] : i \in {3, 4, 5, 7}} THEN <<>> ELSE 0]
  /\ reply = NoFrame
  /\ SockInit
  /\ ClientInit

\* the process has started and "u1" has connected: main and the connection
\* set-up have each called init(), which loaded the store in which every user
\* has a health record; the connection and the UserDataCache entry hold the
\* record loaded last and today's new intake
Init ==
  /\ CoordInit
  /\ store = StoreOf(Users)
  /\ gen = 2
  /\ health_record = {<<e, 2>> : e \in Users}
  /\ health_record_cache = [e \in Users |-> <<e, 2>>]
  /\ intake_history = {<<"u1", 2>>}
  /\ intake_history_cache = [e \in Users |-> IF e = "u1" THEN <<e, 2>> ELSE None]
  /\ hr = [o \in Users \X Gens |-> IF o[2] = 2 THEN 0 ELSE Absent]
  /\ ik = [c \in Users \X Gens \X Days |->
             IF c = <<"u1", 2, 0>> THEN 0 ELSE Absent]
  /\ user_cache = [e \in Users |->
                     IF e = "u1"
                       THEN [NoEntry EXCEPT !.set = TRUE,
                                            !.health_record = <<e, 2>>,
                                            !.intake = <<e, 2, 0>>]
                       ELSE NoEntry]
  /\ conn = [e \in Users |->
               IF e = "u1"
                 THEN [open |-> TRUE, user_record |-> <<e, 2>>,
                       user_intake |-> <<e, 2, 0>>]
                 ELSE Closed]

\* the process has started and nobody has connected: main's init() has
\* loaded a store that holds a health record of "u1" and no row of "u2"
FirstInit ==
  /\ CoordInit
  /\ store = StoreOf({"u1"})
  /\ gen = 1
  /\ health_record = {<<"u1", 1>>}
  /\ health_record_cache = [e \in Users |-> ObjectOf(health_record, e)]
  /\ intake_history = {}
  /\ intake_history_cache = [e \in Users |-> None]
  /\ hr = [o \in Users \X Gens |-> IF o = <<"u1", 1>> THEN 0 ELSE Absent]
  /\ ik = [c \in Users \X Gens \X Days |-> Absent]
  /\ user_cache = [e \in Users |-> NoEntry]
  /\ conn = [e \in Users |-> Closed]

SaveNext ==
  \/ SaveBegin("loop")
  \/ SaveEnterWrite("loop")
  \/ SaveEnterDefer("loop")
  \/ SaveWriteOk("loop")
  \/ \E fp \in FailPoints : SaveWriteFail("loop", fp)
  \/ \E k \in TimerIds : TimerFire(k)
  \/ \E k \in TimerIds : DelayedEnterWrite(k)
  \/ \E k \in TimerIds : DelayedEnterSkip(k)
  \/ \E k \in TimerIds : DelayedWriteOk(k)
  \/ \E k \in TimerIds, fp \in FailPoints : DelayedWriteFail(k, fp)
  \/ \E k \in TimerIds : TimerExit(k)
  \/ \E u \in Users, v \in Values : UpdateWeight(u, v)
  \/ Tick

SaveSpec == Init /\ [][SaveNext]_vars

\* --------------------------------------------------------------------------
\* save() called from two threads at once
\* --------------------------------------------------------------------------
ConcNext ==
  \/ \E t \in Callers : SaveBegin(t)
  \/ \E t \in Callers : SaveEnterWrite(t)
  \/ \E t \in Callers : SaveEnterDefer(t)
  \/ \E t \in Callers : SaveWriteOk(t)
  \/ \E t \in Callers : SaveWriteFail(t, FailAtOnce)
  \/ \E k \in TimerIds : TimerFire(k)
  \/ \E k \in TimerIds : DelayedEnterWrite(k)
  \/ \E k \in TimerIds : DelayedEnterSkip(k)
  \/ \E k \in TimerIds : DelayedWriteOk(k)
  \/ \E k \in TimerIds : DelayedWriteFail(k, FailAtOnce)
  \/ \E k \in TimerIds : TimerExit(k)
  \/ Tick

ConcSpec == Init /\ [][ConcNext]_vars

\* the coordinator with the scheduling the runtime guarantees: the clock
\* advances, a started thread keeps running, a store call ends; nothing
\* obliges a caller to call save() again
SaveFairness ==
  /\ WF_vars(Tick)
  /\ WF_vars(SaveEnterWrite("loop"))
  /\ WF_vars(SaveEnterDefer("loop"))
  /\ WF_vars(SaveWriteOk("loop") \/ \E fp \in FailPoints : SaveWriteFail("loop", fp))
  /\ \A k \in TimerIds :
       /\ WF_vars(TimerFire(k))
       /\ WF_vars(DelayedEnterWrite(k))
       /\ WF_vars(DelayedEnterSkip(k))
       /\ WF_vars(DelayedWriteOk(k) \/ \E fp \in FailPoints : DelayedWriteFail(k, fp))
       /\ WF_vars(TimerExit(k))

FairSaveSpec == SaveSpec /\ SaveFairness

\* --------------------------------------------------------------------------
\* The whole program: logins, connections and messages on the event loop,
\* the timer threads beside it
\* --------------------------------------------------------------------------
Next ==
  \/ \E u \in Users : Login(u)
  \/ \E u \in Users : ConnectCached(u)
  \/ \E u \in Users : ConnectLoad(u)
  \/ \E u \in Users, op \in {"connect", "login"} : InitFails(op, u)
  \/ \E u \in Users : Resume(u)
  \/ \E u \in Users : Disconnect(u)
  \/ \E u \in Users, i \in Intents : SendPrompt(u, i)
  \/ \E u \in Users, i \in Intents : HandleReadOnly(u, i)
  \/ \E u \in Users, i \in Intents : HandleDefault(u, i)
  \/ \E u \in Users : CompletionFails(u)
  \/ \E u \in Users : ChatReply(u)
  \/ \E u \in Users, r \in Responses : WeightReply(u, r)
  \/ \E u \in Users, r \in Responses : FoodReply(u, r)
  \/ SaveEnterWrite("loop")
  \/ SaveEnterDefer("loop")
  \/ SaveWriteOk("loop")
  \/ SaveWriteFail("loop", FailAtOnce)
  \/ \E k \in TimerIds : TimerFire(k)
  \/ \E k \in TimerIds : DelayedEnterWrite(k)
  \/ \E k \in TimerIds : DelayedEnterSkip(k)
  \/ \E k \in TimerIds : DelayedWriteOk(k)
  \/ \E k \in TimerIds : DelayedWriteFail(k, FailAtOnce)
  \/ \E k \in TimerIds : TimerExit(k)
  \/ Tick

Spec == Init /\ [][Next]_vars

\* the first accesses after the start of the process, one user having no
\* stored record: logins, connects, and messages that read or set the weight
FirstNext ==
  \/ \E u \in Users : Login(u)
  \/ \E u \in Users : ConnectCached(u)
  \/ \E u \in Users : ConnectLoad(u)
  \/ \E u \in Users : InitFails("connect", u)
  \/ \E u \in Users : Resume(u)
  \/ \E u \in Users : Disconnect(u)
  \/ \E u \in Users : HandleReadOnly(u, 9)
  \/ \E u \in Users : HandleNoRecord(u, 1)
  \/ \E u \in Users : SendPrompt(u, 1)
  \/ \E u \in Users, r \in Responses : WeightReply(u, r)
  \/ \E u \in Users : CompletionFails(u)
  \/ SaveEnterWrite("loop")
  \/ SaveEnterDefer("loop")
  \/ SaveWriteOk("loop")
  \/ \E k \in TimerIds : TimerFire(k)
  \/ \E k \in TimerIds : DelayedEnterWrite(k)
  \/ \E k \in TimerIds : DelayedEnterSkip(k)
  \/ \E k \in TimerIds : DelayedWriteOk(k)
  \/ \E k \in TimerIds : TimerExit(k)
  \/ Tick

FirstSpec == FirstInit /\ [][FirstNext]_vars

\* the conversation sessions: chat messages of the connected users, the
\* saves that follow them and a login that reloads the sessions
SessionNext ==
  \/ \E u \in Users : SendPromptWithin(u, 0, MaxSends)
  \/ \E u \in Users : ChatReply(u)
  \/ \E u \in Users : CompletionFails(u)
  \/ \E u \in Users : Login(u)
  \/ SaveEnterWrite("loop")
  \/ SaveEnterDefer("loop")
  \/ SaveWriteOk("loop")
  \/ \E k \in TimerIds : TimerFire(k)
  \/ \E k \in TimerIds : DelayedEnterWrite(k)
  \/ \E k \in TimerIds : DelayedEnterSkip(k)
  \/ \E k \in TimerIds : DelayedWriteOk(k)
  \/ \E k \in TimerIds : TimerExit(k)
  \/ Tick

SessionSpec == Init /\ [][SessionNext]_vars

\* the daily intakes across midnight: connections that open and close,
\* food-log messages and the saves that follow them
DayNext ==
  \/ NewDay
  \/ \E u \in Users : ConnectCached(u)
  \/ \E u \in Users : Disconnect(u)
  \/ \E u \in Users : SendPromptWithin(u, 8, MaxSends)
  \/ \E u \in Users, r \in Responses : FoodReply(u, r)
  \/ \E u \in Users : CompletionFails(u)
  \/ SaveEnterWrite("loop")
  \/ SaveEnterDefer("loop")
  \/ SaveWriteOk("loop")

\* "u1" is connected and another route's save() has just written
DayStart == Init /\ last_saved = StartTime

\* the completion client and the classifier on their own, from the start
\* of the process: no flush has been made yet
ClientStart == Init /\ last_saved = 0

\* the sockets of one email: connections that open while another is live,
\* frames of every kind, clients that go away; the clock stands still
FrameNext ==
  \/ \E s \in Socks : connect(s)
  \/ \E s \in Socks : ClientDrop(s)
  \/ \E s \in Socks : ReceiveDisconnect(s)
  \/ \E s \in Socks, f \in InboundFrames, x \in SendOutcomes : Receive(s, f, x)
  \/ \E s \in Socks, i \in FrameIntents, x \in SendOutcomes : PredictReturns(s, i, x)
  \/ \E s \in Socks, x \in SendOutcomes : StreamToken(s, x)
  \/ \E s \in Socks : StreamDone(s)
  \/ \E s \in Socks, v \in Values : WeightAnswer(s, v)
  \/ \E s \in Socks, x \in SendOutcomes : FoodAnswerInvalid(s, x)
  \/ \E s \in Socks, x \in SendOutcomes : AnswerFails(s, x)
  \/ \E s \in Socks, x \in SendOutcomes : StreamWord(s, x)
  \/ \E s \in Socks, x \in SendOutcomes : StreamingEnd(s, x)
  \/ SaveEnterWrite("loop")
  \/ SaveEnterDefer("loop")
  \/ SaveWriteOk("loop")

FrameSpec == ClientStart /\ [][FrameNext]_vars

\* the days pass within one instant of the coordinator's clock: the first
\* save() writes, a later one leaves its flush scheduled
DaySpec == ClientStart /\ [][DayNext]_vars

ClientSpec == ClientStart /\ [][ClientNext]_vars

StreamSpec == ClientStart /\ [][StreamNext]_vars

\* --------------------------------------------------------------------------
\* The handlers of every intent, on the websocket and on GET /chat/, for the
\* user connected at the start and within one instant: a deferred flush
\* stays scheduled
\* --------------------------------------------------------------------------
HandlerNext ==
  \/ \E u \in Users, i \in 0..8 : SendPromptWithin(u, i, MaxSends)
  \/ \E u \in Users, i \in {9, 10} : HandleReadOnly(u, i)
  \/ \E u \in Users : HandleDefault(u, NumIntentions)
  \/ \E u \in Users : CompletionFails(u)
  \/ \E u \in Users : ChatReply(u)
  \/ \E u \in Users, r \in Responses : WeightReply(u, r)
  \/ \E u \in Users, r \in Responses : UpdateReply(u, r)
  \/ \E u \in Users, r \in FoodResponses \cup AmountResponses : FoodReply(u, r)
  \/ \E u \in Users : AnswerPrompt(u)
  \/ \E u \in Users, r \in FoodResponses : AnswerFood(u, r)
  \/ SaveEnterWrite("loop")
  \/ SaveEnterDefer("loop")
  \/ SaveWriteOk("loop")

HandlerSpec == ClientStart /\ [][HandlerNext]_vars

\* --------------------------------------------------------------------------
\* Messages with an intent out of range among weight updates and failed
\* loads, with the clock and the timer threads
\* --------------------------------------------------------------------------
DefaultNext ==
  \/ \E u \in Users : InitFails("login", u)
  \/ \E u \in Users : Resume(u)
  \/ \E u \in Users : SendPromptWithin(u, 1, MaxSends)
  \/ \E u \in Users, r \in Responses : WeightReply(u, r)
  \/ \E u \in Users : HandleDefaultWithin(u, NumIntentions, MaxSends)
  \/ SaveEnterWrite("loop")
  \/ SaveEnterDefer("loop")
  \/ SaveWriteOk("loop")
  \/ \E k \in TimerIds : TimerFire(k)
  \/ \E k \in TimerIds : DelayedEnterWrite(k)
  \/ \E k \in TimerIds : DelayedEnterSkip(k)
  \/ \E k \in TimerIds : DelayedWriteOk(k)
  \/ \E k \in TimerIds : TimerExit(k)
  \/ Tick

DefaultSpec == DayStart /\ [][DefaultNext]_vars

\* --------------------------------------------------------------------------
\* Properties of the persistence coordinator
\* --------------------------------------------------------------------------
\* a timer whose wake-up time lies beyond the explored clock
BeyondHorizon ==
  \E k \in TimerIds : timer[k].st = "waiting" /\ timer[k].fireAt > MaxTime

\* C3: a save() call that found the interval not elapsed is followed by a
\* flush without any further save() call, in every interleaving with the
\* timer thread.
C3_DeferredSaveIsFlushed == unflushed ~> (~unflushed \/ BeyondHorizon)

\* C4: when a save() call that wrote is followed less than an interval later
\* by a second call, the second call only sets the flag and no further write
\* is performed for the rest of that interval.
C4_OneWritePerInterval ==
  (/\ Len(hist) = 2
   /\ hist[1].out = "wrote"
   /\ hist[2].ct >= hist[1].ct
   /\ hist[2].ct - hist[1].ct < save_interval
   /\ now < hist[1].ct + save_interval)
  => (hist[2].out = "deferred" /\ nwrites = hist[1].nw)

\* C5: two consecutive backing-store writes, by save() or by _delayed_save,
\* start at least _save_interval apart.
C5_MinWriteGap ==
  Len(writes) = 2 => writes[2].at - writes[1].at >= save_interval

\* C6: at most one deferred-save timer is started and not yet finished.
C6_OneTimerArmed ==
  Cardinality({k \in TimerIds : timer[k].st \notin {"unused", "finished"}}) <= 1

C6_Witness ==
  /\ Len(hist) = 2
  /\ hist[1].out = "deferred" /\ hist[2].out = "deferred"
  /\ hist[2].ct - hist[1].ct < save_interval
  /\ \E k \in TimerIds : timer[k].st = "waiting"

\* C7: a save() call that finds the interval elapsed and whose store call
\* does not raise has written every record, has set the last-flush timestamp
\* to its own call time and has left the flag clear; a call made more than an
\* interval after a call that wrote writes again.
C7_ElapsedSaveWrites ==
  /\ \A i \in 1..Len(hist) :
       hist[i].ct - hist[i].ls >= save_interval
         => \/ hist[i].out = "raised"
            \/ /\ hist[i].out = "wrote"
               /\ hist[i].ls2 = hist[i].ct
               /\ ~hist[i].pend2
               /\ hist[i].synced
  /\ (/\ Len(hist) = 2
      /\ hist[1].out = "wrote"
      /\ hist[2].ct - hist[1].ct > save_interval
      /\ hist[2].out # "raised")
     => (hist[2].out = "wrote" /\ hist[2].nw = hist[1].nw + 1)

C7_Witness ==
  /\ Len(hist) = 2
  /\ hist[1].out = "wrote" /\ hist[2].out = "wrote"
  /\ hist[2].ct - hist[1].ct > save_interval
  /\ hist[2].nw = hist[1].nw + 1
  /\ hist[2].ls2 = hist[2].ct /\ hist[2].synced
  /\ \E u \in Users : store.health_records[u] = MaxVal

\* C8: a store call that raises inside save() or _delayed_save leaves the
\* pending flag set and the last-flush timestamp where it was.
C8_FailureKeepsPending ==
  [][(wip' # wip /\ wip' \subseteq wip /\ nwrites' = nwrites)
       => (save_pending' /\ last_saved' = last_saved)]_vars

C8_Witness ==
  /\ Len(hist) > 0
  /\ hist[Len(hist)].out = "raised"
  /\ save_pending
  /\ last_saved = hist[Len(hist)].ls

\* C9: flag, timestamp and timer handle are only touched by the thread that
\* holds _save_lock, and at most one store write is in progress.
C9_LockDiscipline == ~unguarded /\ Cardinality(wip) <= 1

C9_Witness ==
  /\ pc["loop"] = "write"
  /\ pc["worker"] = "lock"
  /\ \E k \in TimerIds : timer[k].st = "run"

\* --------------------------------------------------------------------------
\* Properties of the working set and of the message handling
\* --------------------------------------------------------------------------
\* C1: a weight a handler set and followed with save() is the weight the
\* store holds once the next flush that starts afterwards has succeeded,
\* whatever logins, connects and failed flushes occur in between.
C1_SavedMutationIsFlushed ==
  \A u \in Users :
    expect[u].st = "flushed" => store.health_records[u] = expect[u].val

\* C2: the records of every UserDataCache entry and of every open connection
\* are the objects DatabaseHandler holds in its lists.
C2_OneCanonicalCopy ==
  \A u \in Users :
    /\ (conn[u].open /\ conn[u].user_record # None)
         => conn[u].user_record \in health_record
    /\ (conn[u].open /\ conn[u].user_intake # None)
         => <<conn[u].user_intake[1], conn[u].user_intake[2]>> \in intake_history
    /\ (user_cache[u].set /\ user_cache[u].health_record # None)
         => user_cache[u].health_record \in health_record
    /\ (user_cache[u].set /\ user_cache[u].intake # None)
         => <<user_cache[u].intake[1], user_cache[u].intake[2]>> \in intake_history

\* C10: the handling of a message that changed a record or the transcript
\* has called save() before it ended, on success and on error paths alike.
C10_MutationIsSaved == ended.mutated => ended.saved

\* --------------------------------------------------------------------------
\* Properties of the session store
\* --------------------------------------------------------------------------
\* the sessions of user u in DatabaseHandler.session
SessionsOf(u) == {i \in SessIds : session[i].email = u}

\* C11: after any sequence of Deepseek.send and send_stream calls the session
\* list holds at most one session per user: every call after the first finds
\* the session the first one created.
C11_OneSessionPerUser == \A u \in Users : Cardinality(SessionsOf(u)) <= 1

\* --------------------------------------------------------------------------
\* Properties of the daily intakes
\* --------------------------------------------------------------------------
\* C12: find_intake on a day for which the history holds no intake returns
\* an intake dated that day with zero totals and leaves the intakes of the
\* earlier days as they were (seen at the connect that calls it).
C12_FreshIntakeOnNewDay ==
  [][\A u \in Users :
       (~conn[u].open /\ conn'[u].open)
         => LET c == conn'[u].user_intake
            IN /\ c[3] = today
               /\ ik[c] = Absent => ik'[c] = 0
               /\ \A d \in Days :
                    d < today => ik'[<<c[1], c[2], d>>] = ik[<<c[1], c[2], d>>]]_vars

C12_Witness ==
  /\ today = 1
  /\ conn["u1"].open
  /\ conn["u1"].user_intake[3] = 1
  /\ ik[conn["u1"].user_intake] = 0
  /\ ik[<<"u1", conn["u1"].user_intake[2], 0>>] = MaxVal

\* C13: a food-log message handled after midnight on a connection opened
\* before it adds to the intake dated with the new day: whenever the total
\* of an intake changes, the intake is dated today.
C13_FoodLogUpdatesToday ==
  [][\A c \in DOMAIN ik :
       (ik[c] # Absent /\ ik'[c] # Absent /\ ik'[c] # ik[c]) => c[3] = today]_vars

\* the intakes in the histories of DatabaseHandler.intake_history and the
\* intakes the UserDataCache entries refer to
LiveIntakes ==
  {c \in DOMAIN ik :
     /\ ik[c] # Absent
     /\ \/ <<c[1], c[2]>> \in intake_history
        \/ \E u \in Users : user_cache[u].set /\ user_cache[u].intake = c}

\* C14: at most one live intake per user and date, counting the intakes of
\* DatabaseHandler's histories and those the UserDataCache entries hold,
\* after any sequence of find_intake calls, connects, logins and reloads.
C14_OneIntakePerDay ==
  \A c1, c2 \in LiveIntakes : (c1[1] = c2[1] /\ c1[3] = c2[3]) => c1 = c2

\* C15: the first access of a user without stored records yields an entry
\* whose health record exists: no open connection and no UserDataCache
\* entry holds None in its place.
C15_EntryHasRecord ==
  \A u \in Users :
    /\ conn[u].open => conn[u].user_record # None
    /\ user_cache[u].set => user_cache[u].health_record # None

\* --------------------------------------------------------------------------
\* Properties of the classifier and of the completion client
\* --------------------------------------------------------------------------
\* C16: of two predict calls with the same message, one after the other,
\* the second makes no request to the completion service and returns what
\* the first returned.
C16_SecondPredictIsCached ==
  \A m \in Messages :
    Len(predicted[m]) >= 2
      => /\ ~predicted[m][2].upstream
         /\ predicted[m][2].ret = predicted[m][1].ret

\* C16, amended: once a predict call has returned an intent it converted
\* from the completion (or took from the cache), every later call with the
\* same message makes no completion call and returns the same intent; a call
\* that ended in an except clause stores nothing.
C16_ParsedIntentIsCached ==
  \A m \in Messages : \A i, j \in Calls(m) :
    (i < j /\ predicted[m][i].how \in {"parsed", "cached"})
      => /\ predicted[m][j].how = "cached"
         /\ ~predicted[m][j].upstream
         /\ predicted[m][j].ret = predicted[m][i].ret

C16_Witness ==
  \E m \in Messages :
    /\ Len(predicted[m]) = 2
    /\ predicted[m][1].how = "parsed" /\ predicted[m][1].upstream
    /\ predicted[m][2].how = "cached" /\ ~predicted[m][2].upstream
    /\ predicted[m][2].ret = 8

\* C17: predict never raises; a completion call that fails (read timeouts to
\* the last attempt, a status other than 200, a body of another format) and
\* a completion that is no integer make it return 0.
C17_PredictNeverRaises ==
  \A m \in Messages : \A i \in Calls(m) :
    /\ ~predicted[m][i].raised
    /\ predicted[m][i].how \in {"ValueError", "ReadTimeout", "status", "format"}
         => predicted[m][i].ret = 0

C17_Witness ==
  /\ \E m \in Messages : \E i \in Calls(m) :
       predicted[m][i].how = "ReadTimeout" /\ predicted[m][i].ret = 0
  /\ \E m \in Messages : \E i \in Calls(m) :
       predicted[m][i].how = "ValueError" /\ predicted[m][i].ret = 0

\* C18: every value predict returns, and every value in its cache, is an
\* intent code of 0..10.
C18_IntentInRange ==
  \A m \in Messages :
    /\ \A i \in Calls(m) : predicted[m][i].ret \in 0..(NumIntentions - 1)
    /\ _intent_prediction_cache[m].has
         => _intent_prediction_cache[m].val \in 0..(NumIntentions - 1)

\* the read timeouts among the upstream attempts of the call in progress
Timeouts == {i \in 1..Len(req.outcomes) : req.outcomes[i] = "ReadTimeout"}

\* C19: a call of send or send_stream makes at most 3 upstream attempts; an
\* attempt that succeeds after t read timeouts is attempt t + 1, t <= 2, and
\* the call returns; 3 read timeouts are 3 attempts and the call raises.
C19_AtMostThreeAttempts ==
  LET n == Len(req.outcomes)
      t == Cardinality(Timeouts)
  IN /\ n <= 3
     /\ (n > 0 /\ req.outcomes[n] = "ok")
          => /\ Timeouts = 1..(n - 1)
             /\ n = t + 1 /\ t <= 2
             /\ req.st = "done" /\ req.out.kind = "ok"
     /\ t = 3 => (n = 3 /\ req.st = "done" /\ req.out.kind = "raise")
     /\ (req.st = "done" /\ req.out.kind = "ok" /\ n > 0)
          => req.outcomes[n] = "ok"

C19_Witness ==
  /\ req.kind = "send_stream"
  /\ req.outcomes = <<"ReadTimeout", "ReadTimeout", "ok">>
  /\ req.st = "done" /\ req.out.kind = "ok"

\* C20: the delay slept after the first read timeout of a call is 1, the
\* delay slept after the second is 2, and none is slept after the third.
C20_BackoffDoubles ==
  /\ Len(req.slept) <= 2
  /\ Len(req.slept) >= 1 => req.slept[1] = 1
  /\ Len(req.slept) >= 2 => req.slept[2] = 2
  /\ req.st = "sleep"
       => /\ Len(req.slept) < 2
          /\ req.retry_delay = IF Len(req.slept) = 0 THEN 1 ELSE 2
          /\ Cardinality(Timeouts) = Len(req.slept) + 1
  /\ req.st # "sleep" => Len(req.slept) = Cardinality(Timeouts \ {3})
  /\ Cardinality(Timeouts) = 3 => (req.slept = <<1, 2>> /\ req.st = "done")

C20_Witness ==
  /\ req.kind = "send"
  /\ req.outcomes = <<"ReadTimeout", "ReadTimeout", "ReadTimeout">>
  /\ req.slept = <<1, 2>>
  /\ req.st = "done" /\ req.out.kind = "raise"

\* C21: a status other than 200, a body that cannot be read as a completion
\* or any failure other than a read timeout, on any attempt, ends the call
\* with an error at once: a payload that is no JSON has ended the call it
\* came in, and the call has raised.
C21_UnparseableEndsCall ==
  stream.unparsed => (req.st = "done" /\ req.out.kind = "raise")

\* C21, amended: an attempt of send or send_stream that ends with a status
\* other than 200, or an attempt of send whose body is not a completion, is
\* the last attempt of its call; the call raises and sleeps no delay after
\* it.  In send_stream a line that is no JSON ends no attempt.
C21_FailureIsNotRetried ==
  /\ \A i \in 1..Len(req.outcomes) :
       req.outcomes[i] \in {"status", "format"}
         => /\ i = Len(req.outcomes)
            /\ req.st = "done" /\ req.out.kind = "raise"
            /\ Len(req.slept) = i - 1
  /\ req.kind = "send_stream"
       => \A i \in 1..Len(req.outcomes) : req.outcomes[i] # "format"

C21_Witness ==
  /\ req.kind = "send"
  /\ req.outcomes = <<"ReadTimeout", "format">>
  /\ req.slept = <<1>>
  /\ req.st = "done" /\ req.out.kind = "raise"

\* the call in progress is a send for a key that an earlier send returned a
\* text for, the entry not having expired since
SendAgain ==
  /\ req.kind = "send" /\ req.st # "idle"
  /\ returned[req.key].has /\ ~returned[req.key].fresh

\* C22: once send has returned a text, a second send with the same messages
\* and temperature within the time-to-live returns that text and makes no
\* upstream request.
C22_SecondSendIsCached ==
  SendAgain
    => /\ req.st = "done" /\ req.outcomes = <<>>
       /\ req.out = [kind |-> "ok", text |-> returned[req.key].val]

\* C22, amended: once send has returned a text that is not empty, a second
\* send with the same messages and temperature returns that text and makes
\* no upstream request, as long as the entry has not expired and no
\* send_stream with the same messages and temperature has ended in between.
C22_NonEmptyTextIsCached ==
  (SendAgain /\ returned[req.key].val # <<>> /\ ~returned[req.key].streamed)
    => /\ req.st = "done" /\ req.outcomes = <<>>
       /\ req.out = [kind |-> "ok", text |-> returned[req.key].val]

C22_Witness ==
  /\ SendAgain /\ ~returned[req.key].streamed
  /\ req.st = "done" /\ req.outcomes = <<>>
  /\ req.out = [kind |-> "ok", text |-> <<"1", "1">>]

\* a streamed completion has finished: the generator has returned
StreamFinished ==
  req.st = "done" /\ req.kind = "send_stream" /\ req.out.kind = "ok"

\* C23: when a streamed completion finishes, the text stored in the cache
\* and the assistant message given to the session are both the concatenation
\* of the fragments forwarded to the caller, in order, and this is the full
\* text the service sent.
C23_StreamIsReassembled ==
  StreamFinished
    => /\ API_CACHE[req.key].has
            => API_CACHE[req.key].val = Concat(stream.tokens)
       /\ assistant_response = Concat(stream.tokens)
       /\ Concat(stream.tokens) = stream.sent

\* C24: once the end marker [DONE] has come, no fragment is forwarded to the
\* caller or added to the reassembled text.
C24_NothingAfterDone == ~stream.late

\* a step that ends the handling of a message of u that was waiting for its
\* completion
Answered(u) == msg[u].st # "idle" /\ msg'[u].st = "idle"

\* a step of a handler that awaits no completion
Immediate == msgs' # msgs /\ msg' = msg

\* C25: for the numeric intents 1, 2 and 6, when the completion output does
\* not parse as a floating-point number, every field of every health
\* record, intent record and intake keeps its value and the user is sent a
\* failure notice.
C25_UnparsedChangesNothing ==
  [][\A u \in Users :
       (/\ Answered(u)
        /\ msg[u].st = "await" /\ msg[u].intent \in {1, 2, 6}
        /\ reply'.text = <<"n", "o">>)
       => /\ hr' = hr /\ attr' = attr /\ ik' = ik
          /\ reply'.kind = "error"]_vars

C25_Witness ==
  /\ ended.intent = 6 /\ ended.out = "error"
  /\ reply.kind = "error" /\ reply.text = <<"n", "o">>
  /\ attr[<<<<ended.u, 2>>, "weight_goal">>] = 1

\* C26: for the numeric intents 1, 2 and 6, when the completion output
\* parses as the number v, the completion was asked for at temperature 0,
\* the target field (weight, height, weight goal) is v after the handler,
\* save() has been called, and the confirmation quotes the value the field
\* had before and v.
C26_ParsedNumberIsStored ==
  [][\A u \in Users, v \in Values :
       (/\ Answered(u)
        /\ msg[u].st = "await" /\ msg[u].intent \in {1, 2, 6}
        /\ reply'.text = <<" ", DigitChars[v + 1], ".", "0">>)
       => LET o == conn[u].user_record
              before == CASE msg[u].intent = 1 -> hr[o]
                          [] msg[u].intent = 2 -> attr[<<o, "height">>]
                          [] msg[u].intent = 6 -> attr[<<o, "weight_goal">>]
              now_is == CASE msg[u].intent = 1 -> hr'[o]
                          [] msg[u].intent = 2 -> attr'[<<o, "height">>]
                          [] msg[u].intent = 6 -> attr'[<<o, "weight_goal">>]
          IN /\ reply'.temperature = 0
             /\ now_is = v
             /\ pc["loop"] = "idle" /\ pc'["loop"] = "lock"
             /\ reply'.kind = "updated"
             /\ reply'.old = before /\ reply'.new = v]_vars

C26_Witness ==
  /\ ended.intent = 2 /\ ended.saved
  /\ reply.kind = "updated" /\ reply.old = 1 /\ reply.new = 0
  /\ reply.temperature = 0
  /\ attr[<<<<ended.u, 2>>, "height">>] = 0

\* C27: for the food-log intent 8, when the completion output is an object
\* with the keys foods, carbohydrate, fat and protein, the totals of today's
\* intake each increase by exactly the returned amount and the returned
\* foods are appended to the foods already logged.
C27_FoodLogAccumulates ==
  [][\A u \in Users, v \in Values :
       (/\ Answered(u)
        /\ msg[u].intent = 8
        /\ reply'.text = <<" ", DigitChars[v + 1], ".", "0">>)
       => LET c == IF msg[u].st = "await" THEN conn[u].user_intake
                                          ELSE msg[u].intake
          IN ik'[c] = ik[c] + v]_vars

\* C28: for the food-log intent 8, when the completion output is neither
\* JSON nor a literal, or lacks one of the keys foods, carbohydrate, fat and
\* protein, the user is sent the tagged error payload (info_updated false)
\* and the totals and the food list of the intake are unchanged.
C28_BadFoodOutputIsReported ==
  [][\A u \in Users :
       (/\ Answered(u)
        /\ msg[u].intent = 8
        /\ reply'.text \in {<<"n", "o">>, <<"{", "}">>})
       => /\ reply'.kind = "food_intake_error"
          /\ ik' = ik]_vars

C30_DefaultStillSchedules ==
  [][/\ (Immediate /\ ended'.intent \notin 0..10)
          => /\ reply'.kind = "undetermined"
             /\ pc["loop"] = "idle" /\ pc'["loop"] = "lock"
     /\ (/\ pc["loop"] = "lock" /\ pc'["loop"] # "lock"
         /\ after = NoResume
         /\ ended.intent \notin 0..10 /\ ended.saved
         /\ unflushed)
          => \/ pc'["loop"] = "write"
             \/ \E k \in TimerIds : timer'[k].st = "waiting"]_vars

\* C39: for one send_stream call the fragments forwarded to the caller, which
\* make up the assistant message of the session, are the fragments of a
\* single upstream response: after an attempt that timed out with fragments
\* already forwarded and a retry, no fragment has been forwarded twice.
C39_NoFragmentTwice ==
  StreamFinished => Concat(stream.tokens) = stream.full_response

\* C37: when the frame that ends a message has the error status, no field
\* of any record or intake has been changed by that message: neither by a
\* handler that raises during the food-log accumulation, nor by one whose
\* save() raises after the assignment.
C37_ErrorMeansUnchanged ==
  [][/\ \A u \in Users :
          (Answered(u) /\ msg[u].st = "await" /\ reply'.kind = "error")
          => hr' = hr /\ attr' = attr /\ ik' = ik
     /\ (/\ pc["loop"] = "write" /\ pc'["loop"] = "idle"
         /\ reply.kind # "error" /\ reply'.kind = "error")
          => /\ ~(reply.kind = "updated" /\ reply.new # reply.old)
             /\ reply.kind # "food_intake"]_vars

\* C38: a food-log update is all or nothing: the handler of intent 8 either
\* appends the foods and adds every amount of the answer to the totals of
\* the intake, or leaves foods and totals as they were, also when an amount
\* of the answer is not convertible to a number.
C38_FoodLogAllOrNothing ==
  [][\A u \in Users :
       (/\ Answered(u) /\ msg[u].intent = 8 /\ msg[u].st = "await"
        /\ conn[u].user_intake # None)
       => LET c == conn[u].user_intake
          IN \/ /\ attr'[<<c, "foods">>] = attr[<<c, "foods">>] + 1
                /\ ik'[c] = ik[c] + reply'.val
                /\ attr'[<<c, "fat">>] = attr[<<c, "fat">>] + reply'.val
             \/ attr' = attr /\ ik' = ik]_vars

\* the statuses of the frames among fr that reached a client
RECURSIVE Emitted(_)
Emitted(fr) ==
  IF fr = <<>> THEN <<>>
  ELSE IF Head(fr).got THEN <<Head(fr).status>> \o Emitted(Tail(fr))
  ELSE Emitted(Tail(fr))

\* the tokens of the streaming_token frames among fr, one after the other
RECURSIVE TokensOf(_)
TokensOf(fr) ==
  IF fr = <<>> THEN <<>>
  ELSE IF Head(fr).status = "streaming_token"
         THEN Head(fr).token \o TokensOf(Tail(fr))
  ELSE TokensOf(Tail(fr))

\* socket s receives a frame in this step
Receives(s) == ws'[s].n = ws[s].n + 1

\* C31: a frame without a message field that comes in on a connection whose
\* client is there yields exactly one frame saying that the field is
\* required, which reaches a client, and nothing else: the endpoint is back
\* at receive_text without having classified or dispatched, the socket
\* registered for the email, the records, the intakes and the coordinator
\* are as they were.
C31_MissingMessageOneErrorFrame ==
  [][\A s \in Socks :
       (Receives(s) /\ ws'[s].last = "nomsg")
       => /\ Len(ws'[s].frames) = 1
          /\ ws'[s].frames[1].status = "required"
          /\ ws'[s].frames[1].got
          /\ ws'[s].st = "receive"
          /\ active_connections' = active_connections
          /\ hr' = hr /\ attr' = attr /\ ik' = ik
          /\ UNCHANGED <<saveVars, store>>]_vars

\* C32: no frame that comes in ends the connection: after a frame has been
\* received the endpoint has not ended and the socket registered for the
\* email is the same; an endpoint ends only when its client has gone.
C32_NoFrameEndsConnection ==
  [][\A s \in Socks :
       /\ Receives(s)
            => /\ ws'[s].st # "ended"
               /\ active_connections' = active_connections
       /\ (ws[s].st # "ended" /\ ws'[s].st = "ended") => ~ws[s].open]_vars

\* C33: when the relaying of a streamed reply stops, whether or not the
\* client has gone meanwhile, the generator has run to its end: the
\* completion is stored in the cache and appended to the session; and no
\* fragment reaches a client that has gone.
C33_DropLeavesUpstreamRunning ==
  [][\A s \in Socks :
       /\ (ws[s].st = "stream" /\ ws'[s].st # "stream")
            => ws'[s].cached /\ ws'[s].appended
       /\ (~ws[s].open /\ Len(ws'[s].frames) > Len(ws[s].frames))
            => LET f == ws'[s].frames[Len(ws'[s].frames)]
               IN f.to = s => ~f.got]_vars

\* C34: the frames that reach a client for a frame with a message come in
\* the order processing, then error, or streaming_start, streaming_token
\* any number of times, and one of streaming_end and error; once the
\* endpoint whose client is there receives again, the terminal frame has
\* come.
C34_FrameOrder ==
  \A s \in Socks :
    ws[s].last = "message"
    => LET E == Emitted(ws[s].frames)
       IN /\ Len(E) >= 1 => E[1] = "processing"
          /\ Len(E) >= 2 => E[2] \in {"error", "streaming_start"}
          /\ \A k \in 3..Len(E) :
               /\ E[2] = "streaming_start"
               /\ E[k - 1] \in {"streaming_start", "streaming_token"}
               /\ E[k] \in {"streaming_token", "streaming_end", "error"}
          /\ (ws[s].st = "receive" /\ ws[s].open)
               => /\ Len(E) >= 2
                  /\ E[Len(E)] \in {"streaming_end", "error"}

\* C35: with two connections of one email, every frame produced for a
\* frame that came in on a socket is sent on that socket, whatever the
\* other connection does: none goes to the other socket and none is left
\* out because the other has disconnected.
C35_FramesOnOwnConnection ==
  \A s \in Socks :
    \A k \in 1..Len(ws[s].frames) : ws[s].frames[k].to = s

\* C36: the old value a weight confirmation quotes is the value the weight
\* had just before the write of the handler that sends it, also when
\* another handler of the same user was suspended at its completion call
\* at the same time.
C36_OldValueIsValueBeforeWrite ==
  \A s \in Socks :
    \A k \in 1..Len(ws[s].frames) :
      (ws[s].intent = 1 /\ ws[s].frames[k].status = "streaming_end")
      => ws[s].frames[k].old = ws[s].before

\* C40: when the frames of a message end with streaming_end, the tokens of
\* its streaming_token frames, one after the other, are the words of the
\* response the streaming_end frame carries: the reply is streamed once.
C40_ReplyStreamedOnce ==
  \A s \in Socks :
    LET fr == ws[s].frames
    IN (fr # <<>> /\ fr[Len(fr)].status = "streaming_end")
       => TokensOf(fr) = fr[Len(fr)].response

====
